---- MODULE Spec2Model ----
(***************************************************************************)
(* Host side of the frame-producer IPC (platform/posix/frameserver.c):     *)
(* the connection listener and verifier (socketpoll -> socketverify ->     *)
(* send_key), the subsegment spawner and the child supervisor.             *)
(*                                                                         *)
(* Bytes are naturals 0..255.  A producer record (PR) is a record; the     *)
(* operating system is the socket namespace ns, the descriptor table fds   *)
(* and the log of signals and workers oslog.  A handler is translated as a *)
(* function from "world" to "world" (the record of all variables), so that *)
(* a C function calling another is function composition; an action         *)
(* commits the world its handler returns.                                  *)
(***************************************************************************)
EXTENDS Integers, Sequences, FiniteSets, TLC

VARIABLES
  pr,        \* PR id -> arcan_frameserver record (and ghosts of its history)
  ns,        \* filesystem namespace: path -> socket bound to it, or NoSock
  fds,       \* socket -> "unused" | "listening" | "open" | "closed"
  wrote,     \* PR id -> bytes written on its control socket, in order
  outq,      \* PR id -> events on its outbound queue, in order
  inbox,     \* PR id -> descriptors handed to its producer over its socket
  oslog,     \* set of [op, pr, pid]: signals sent and reaper workers started
  unlinked,  \* PR id -> number of unlink() calls made on its listener path
  nfree,     \* PR id -> number of times the destruction sequence ran on it
  tick,      \* operations performed by the handler invocation in progress/last
  pc,        \* "idle", or "send_key" while socketverify is in its write loop
  cur,       \* the PR whose handler is at pc
  rtc,       \* send_key: retries left
  ntw,       \* send_key: bytes still to write
  wofs,      \* send_key: offset of the next byte to write
  nanny,     \* killchild's statics and the process environment
  vc,        \* the last call of arcan_frameserver_validchild: inputs and result
  reaper,    \* the nanny_thread worker: its position and locals
  net,       \* arcan-net (a12/net/net.c): the process and its children
  cli,       \* arcan-net: the command line given to main and what main made of it
  addr,      \* the last socket address shmalloc built: its inputs and the result
  proc       \* the process table entry of the child a server PR was spawned with

vars == <<pr, ns, fds, wrote, outq, inbox, oslog, unlinked, nfree, tick, pc, cur,
          rtc, ntw, wofs, nanny, vc, reaper, net, cli, addr, proc>>

-----------------------------------------------------------------------------
(* Program constants *)

\* values of the shared-memory interface header, which the file includes:
\* the cap of a key, the pid that stands for "no process", the largest
\* width and height of a segment
PP_SHMPAGE_SHMKEYLIM == 32
BROKEN_PROCESS_HANDLE == -1
ARCAN_SHMPAGE_MAXW == 8192
ARCAN_SHMPAGE_MAXH == 8192

\* ssize_t rtc = 10 in send_key
SEND_RETRIES == 10

NUL == 0
LF == 10

(* Bounds of the model *)

MaxDim == 4         \* widths and heights passed to resize

MaxPR == 2          \* PR slots
MaxVaried == 2      \* input positions at which the client's byte is free
MaxTag == 1         \* tags passed to spawn_subsegment are 0..MaxTag

\* sizes are counted in units of the page structure: the size of a segment of
\* w x h pixels is the structure and one further unit per pixel; the largest
\* size and the size a segment starts with are those of two fixed formats
PageUnit == 1
arcan_shmif_getsize(w, h) == PageUnit + (w * h)
ARCAN_SHMPAGE_MAX_SZ == arcan_shmif_getsize(MaxDim - 1, MaxDim)
ARCAN_SHMPAGE_START_SZ == arcan_shmif_getsize(MaxDim - 1, MaxDim - 1)

PRIds == 1..MaxPR
NoPR == 0
NoSock == <<"none", 0>>
NoPath == 0

\* the sockets a PR can own: its listening socket, the socket accept returns,
\* and the two halves of the socketpair made for it
LSock(p) == <<"listen", p>>
ASock(p) == <<"accepted", p>>
Pair0(p) == <<"pair0", p>>
Pair1(p) == <<"pair1", p>>
SockIds == {NoSock} \cup UNION {{LSock(p), ASock(p), Pair0(p), Pair1(p)} : p \in PRIds}

Paths == {1}

-----------------------------------------------------------------------------
(* Bytes and buffers *)

\* a ^ b and a | b on bytes, bit by bit from the lowest
RECURSIVE xor8(_, _)
xor8(a, b) ==
  IF a = b THEN 0
  ELSE IF a = 0 THEN b
  ELSE IF b = 0 THEN a
  ELSE (((a % 2) + (b % 2)) % 2) + (2 * xor8(a \div 2, b \div 2))

RECURSIVE or8(_, _)
or8(a, b) ==
  IF a = b THEN a
  ELSE IF a = 0 THEN b
  ELSE IF b = 0 THEN a
  ELSE (IF (a % 2) = 1 \/ (b % 2) = 1 THEN 1 ELSE 0) + (2 * or8(a \div 2, b \div 2))

\* a NUL-filled buffer of the key cap, and a string laid out in one
ZeroBuf == [i \in 1..PP_SHMPAGE_SHMKEYLIM |-> NUL]
KeyBuf(s) == [i \in 1..PP_SHMPAGE_SHMKEYLIM |-> IF i <= Len(s) THEN s[i] ELSE NUL]

\* the loop of memcmp_nodep: diffv |= *p1++ ^ *p2++, n times
RECURSIVE diffv_loop(_, _, _, _, _)
diffv_loop(s1, s2, i, n, diffv) ==
  IF i > n THEN diffv
  ELSE diffv_loop(s1, s2, i + 1, n, or8(diffv, xor8(s1[i], s2[i])))

memcmp_nodep(s1, s2, n) == ~(diffv_loop(s1, s2, 1, n, 0) # 0)

\* memset(buf + ofs, 0, PP_SHMPAGE_SHMKEYLIM - ofs)
memset_tail(buf, ofs) ==
  [i \in 1..PP_SHMPAGE_SHMKEYLIM |-> IF i > ofs THEN NUL ELSE buf[i]]

\* snprintf(buf, lim, "%s\n", key): at most lim-1 characters and a NUL are
\* stored, the length the full string would have had is returned
snprintf_text(key) == key \o <<LF>>
snprintf_ret(key) == Len(snprintf_text(key))
snprintf_buf(buf, lim, key) ==
  LET text == snprintf_text(key)
      n == IF Len(text) < lim - 1 THEN Len(text) ELSE lim - 1
  IN [i \in 1..PP_SHMPAGE_SHMKEYLIM |->
        IF i <= n THEN text[i] ELSE IF i = n + 1 THEN NUL ELSE buf[i]]

\* the segment key arcan_findshmkey finds for PR p, of n characters: graphical
\* characters, the first naming p (keys are unique among the PRs)
SegKey(p, n) == [i \in 1..n |-> IF i = 1 THEN 48 + p ELSE 64 + i]

-----------------------------------------------------------------------------
(* Producer records *)

\* the record arcan_frameserver_alloc returns, before anyone fills it in
\* the rest of the control header after memset(shmpage, 0, shmsize), and as
\* shmalloc fills it: dms, parent, major/minor and cookie
ZeroHeader == [dms |-> FALSE, parent |-> "0", version |-> "0", cookie |-> "0"]
FilledHeader ==
  [dms |-> TRUE, parent |-> "getpid", version |-> "ARCAN_VERSION",
   cookie |-> "arcan_shmif_cookie"]

FreshPR ==
  [ mem        |-> "live",       \* "none" | "live" | "freed" (released memory)
    alive      |-> TRUE,         \* flags.alive
    subsegment |-> FALSE,        \* flags.subsegment
    child      |-> 0,            \* pid of the producer process
    key        |-> << >>,        \* shm.key, the segment key
    ptr        |-> FALSE,        \* shm.ptr != NULL: the page is mapped
    w          |-> 0,            \* shm.ptr->w
    h          |-> 0,            \* shm.ptr->h
    hdr        |-> ZeroHeader,   \* shm.ptr->dms, parent, major/minor, cookie
    sockaddr   |-> NoPath,       \* path of the listener, NoPath for NULL
    sockout_fd |-> NoSock,
    clientkey  |-> ZeroBuf,
    sockinbuf  |-> ZeroBuf,
    sockrofs   |-> 0,
    feed       |-> "none",       \* the feed function of the video object
    aid        |-> FALSE,        \* an audio feed is attached
    shmsize    |-> 0,            \* shm.shmsize, the recorded size of the mapping
    segment_size |-> 0,          \* shm.ptr->segment_size (read only while mapped)
    shmobj     |-> "none",       \* the shared-memory object: "none" | "linked" | "unlinked"
    sems       |-> "none",       \* its three semaphores: "none" | "linked" | "unlinked"
    \* ghosts: history of the record, never read by the handlers
    origin     |-> "none",       \* "listen" | "server" | "subsegment"
    parent     |-> NoPR,
    lpath      |-> NoPath,       \* the path bound for it by shmalloc
    rd         |-> << >>,        \* bytes read() delivered before a newline
    gotNL      |-> FALSE,        \* read() delivered a newline
    nobyte     |-> FALSE,        \* a read() delivered nothing
    verdict    |-> "none",       \* "match" | "mismatch" at the newline
    sent       |-> FALSE,        \* send_key ended with every byte written
    oob        |-> FALSE,        \* a byte was stored past sockinbuf
    returned   |-> FALSE,        \* the call that made it returned it
    rzsz       |-> 0,            \* the size the last resize required
    hint       |-> <<0, 0>>,     \* the hints spawn_subsegment was given
    input      |-> FALSE,        \* the input flag spawn_subsegment was given
    tag        |-> 0 ]           \* the tag spawn_subsegment was given

NoRecord == [FreshPR EXCEPT !.mem = "none", !.alive = FALSE]

World ==
  [ pr |-> pr, ns |-> ns, fds |-> fds, wrote |-> wrote, outq |-> outq,
    inbox |-> inbox,
    oslog |-> oslog, unlinked |-> unlinked, nfree |-> nfree, tick |-> tick,
    pc |-> pc, cur |-> cur, rtc |-> rtc, ntw |-> ntw, wofs |-> wofs,
    nanny |-> nanny ]

\* the world x becomes the next state of the host (x is evaluated once)
CommitHost(x) ==
  \E y \in {x} :
    /\ pr' = y.pr /\ ns' = y.ns /\ fds' = y.fds /\ wrote' = y.wrote
    /\ outq' = y.outq /\ inbox' = y.inbox /\ oslog' = y.oslog /\ unlinked' = y.unlinked
    /\ nfree' = y.nfree /\ tick' = y.tick /\ pc' = y.pc /\ cur' = y.cur
    /\ rtc' = y.rtc /\ ntw' = y.ntw /\ wofs' = y.wofs /\ nanny' = y.nanny

\* a step of the host alone
Commit(x) == CommitHost(x) /\ UNCHANGED <<vc, reaper, net, cli, addr, proc>>

Log(x, op) == [x EXCEPT !.tick = Append(@, op)]

\* unlink(path): the name leaves the namespace, whatever was bound to it;
\* the count is of the calls p makes on the path bound for it
unlink(x, p, path) ==
  [x EXCEPT !.ns[path] = NoSock,
            !.unlinked[p] = IF path = x.pr[p].lpath THEN @ + 1 ELSE @]

close(x, fd) ==
  IF fd = NoSock THEN x ELSE [x EXCEPT !.fds[fd] = "closed"]

-----------------------------------------------------------------------------
(* Child supervisor *)

arcan_frameserver_killchild_any(x, p, os) ==
  LET src == x.pr[p] IN
  IF src.child <= 1 THEN x
  ELSE
    LET no_nanny == IF x.nanny.env_checked THEN x.nanny.no_nanny
                    ELSE os.env_nonanny
        x1 == [x EXCEPT !.nanny = [env_checked |-> TRUE, no_nanny |-> no_nanny]]
    IN IF no_nanny THEN x1
       ELSE IF os.thread_ok
         THEN [x1 EXCEPT !.oslog = @ \cup {[op |-> "worker", pr |-> p, pid |-> src.child]}]
         ELSE [x1 EXCEPT !.oslog = @ \cup {[op |-> "kill", pr |-> p, pid |-> src.child]}]

\* arcan_frameserver_killchild.  os.env_nonanny: ARCAN_DEBUG_NONANNY is set in
\* the environment; os.thread_ok: pthread_create succeeds
arcan_frameserver_killchild(x, p, os) ==
  LET src == x.pr[p] IN
  IF src.subsegment THEN x
  ELSE IF src.child <= 1 THEN x
  ELSE
    LET no_nanny == IF x.nanny.env_checked THEN x.nanny.no_nanny
                    ELSE os.env_nonanny
        x1 == [x EXCEPT !.nanny = [env_checked |-> TRUE, no_nanny |-> no_nanny]]
    IN IF no_nanny THEN x1
       ELSE IF os.thread_ok
         THEN [x1 EXCEPT !.oslog = @ \cup {[op |-> "worker", pr |-> p, pid |-> src.child]}]
         ELSE [x1 EXCEPT !.oslog = @ \cup {[op |-> "kill", pr |-> p, pid |-> src.child]}]

\* arcan_frameserver_dropshared: unmap the page (the names of the shared
\* object and of the semaphores are unlinked)
arcan_frameserver_dropshared(x, p) ==
  [x EXCEPT !.pr[p].ptr = FALSE,
            !.pr[p].shmobj = "unlinked",
            !.pr[p].sems = "unlinked"]

\* arcan_frameserver_free, the PR destruction sequence: stop the feed, unlink
\* the socket path, drop the shared page, hand the pid to the supervisor,
\* close the control socket, release the memory
arcan_frameserver_free(x, p, os) ==
  LET src == x.pr[p]
      x1 == [x EXCEPT !.pr[p].feed = "null"]
      x2 == IF src.sockaddr # NoPath
              THEN [unlink(x1, p, src.sockaddr) EXCEPT !.pr[p].sockaddr = NoPath]
              ELSE x1
      x3 == arcan_frameserver_dropshared(x2, p)
      x4 == arcan_frameserver_killchild(x3, p, os)
      x5 == [x4 EXCEPT !.pr[p].child = BROKEN_PROCESS_HANDLE,
                       !.pr[p].alive = FALSE,
                       !.pr[p].aid = FALSE]
      x6 == close(x5, src.sockout_fd)
  IN [Log(x6, "free") EXCEPT !.pr[p].mem = "freed", !.nfree[p] = @ + 1]

\* arcan_frameserver_validchild; pollbad: the zero-timeout poll of the control
\* socket reports ERR, HUP or NVAL or fails other than by EINTR; ec: what the
\* non-blocking waitpid returns
arcan_frameserver_validchild(src, pollbad, ec) ==
  IF ~src.alive THEN FALSE
  ELSE IF src.child = BROKEN_PROCESS_HANDLE
    THEN IF src.sockout_fd # NoSock /\ pollbad THEN FALSE ELSE TRUE
    ELSE IF ec = src.child THEN FALSE ELSE TRUE


-----------------------------------------------------------------------------
(* Shared segment allocator *)

\* arcan_frameserver_dropsemaphores_keyed: the three semaphores of the key are
\* unlinked
arcan_frameserver_dropsemaphores_keyed(x, p) ==
  [x EXCEPT !.pr[p].sems = "unlinked"]

ShmallocResults == {"ok", "nokey", "nosocket", "bindfail", "truncfail", "mapfail"}

\* shmalloc(ctx, namedsocket, optkey): n is the length of the key found by
\* arcan_findshmkey, path the socket path built from optkey, res where it fails
shmalloc(x, p, namedsocket, path, n, res) ==
  LET x0 == [x EXCEPT !.pr[p].key = SegKey(p, n),
                      !.pr[p].shmobj = "linked",
                      !.pr[p].sems = "linked",
                      !.pr[p].shmsize = ARCAN_SHMPAGE_START_SZ]
      failsEarly == namedsocket /\ res \in {"nokey", "nosocket", "bindfail"}
      \* unlink(addr.sun_path); bind; listen; sockout_fd = fd; sockaddr = strdup
      x1 == IF namedsocket /\ ~failsEarly
              THEN [unlink(x0, p, path) EXCEPT
                      !.ns[path] = LSock(p),
                      !.fds[LSock(p)] = "listening",
                      !.pr[p].sockout_fd = LSock(p),
                      !.pr[p].sockaddr = path,
                      !.pr[p].lpath = path]
              ELSE IF namedsocket /\ res = "bindfail"
                THEN unlink(x0, p, path)
                ELSE x0
  IN IF res = "truncfail" /\ ~failsEarly THEN x1
     ELSE IF failsEarly \/ res = "mapfail"
       THEN arcan_frameserver_dropsemaphores_keyed(x1, p)
       ELSE [x1 EXCEPT !.pr[p].ptr = TRUE, !.pr[p].w = 0, !.pr[p].h = 0,
                       !.pr[p].hdr = FilledHeader,
                       !.pr[p].segment_size = x1.pr[p].shmsize]

shmalloc_returns(res) == res = "ok"

abs(n) == IF n < 0 THEN 0 - n ELSE n

within_gain_lt(sz, shmsize) == sz < shmsize /\ 10 * sz < 8 * shmsize

\* sz < src->shmsize && sz > (float)src->shmsize * 0.8
within_gain(sz, shmsize) == sz < shmsize /\ 10 * sz > 8 * shmsize

resize_remap_keeps_size(x, p, sz, in) ==
  LET x1 == Log([x EXCEPT !.pr[p].ptr = FALSE], "munmap")
      x2 == [x1 EXCEPT !.pr[p].shmsize = sz]
  IN IF ~in.trunc_ok THEN Log(Log(x2, "ftruncate:fail"), "resize:false")
     ELSE IF ~in.map_ok THEN Log(Log(Log(x2, "ftruncate"), "mmap:fail"), "resize:false")
     ELSE Log(Log(Log([x2 EXCEPT !.pr[p].ptr = TRUE], "ftruncate"), "mmap"), "resize:true")

\* the control header of the page of a handle
page_header(src) ==
  [hdr |-> src.hdr, w |-> src.w, h |-> src.h, segment_size |-> src.segment_size]

\* the header found in the page mapped anew: the shared object keeps what it
\* held, but for what the producer, which has it mapped all along, stored
\* while the host had it unmapped (in.page = "dms": it cleared the dead-man
\* flag)
page_mapped(held, in) ==
  IF in.page = "dms" THEN [held EXCEPT !.hdr.dms = FALSE] ELSE held

memcpy_page_none(dst, tmpbuf) == dst

\* memcpy(src->ptr, tmpbuf, sizeof(struct arcan_shmif_page)): the page holds
\* the copy
memcpy_page(dst, tmpbuf) == tmpbuf

\* arcan_frameserver_resize from the temporary copy on: unmap, truncate, map,
\* copy the header back and store the size in it.  in.trunc_ok, in.map_ok:
\* ftruncate and mmap succeed
resize_remap(x, p, sz, in) ==
  LET tmpbuf == page_header(x.pr[p])
      x1 == Log([x EXCEPT !.pr[p].ptr = FALSE], "munmap")
      x2 == [x1 EXCEPT !.pr[p].shmsize = sz]
      page == memcpy_page(page_mapped(tmpbuf, in), tmpbuf)
  IN IF ~in.trunc_ok THEN Log(Log(x2, "ftruncate:fail"), "resize:false")
     ELSE IF ~in.map_ok THEN Log(Log(Log(x2, "ftruncate"), "mmap:fail"), "resize:false")
     ELSE Log(Log(Log([x2 EXCEPT !.pr[p].ptr = TRUE,
                                 !.pr[p].hdr = page.hdr,
                                 !.pr[p].w = page.w,
                                 !.pr[p].h = page.h,
                                 !.pr[p].segment_size = sz],
                      "ftruncate"), "mmap"), "resize:true")

\* arcan_frameserver_resize(src, w, h) on the handle of PR p, built without
\* ARCAN_SHMIF_OVERCOMMIT.  The copy of the header reads through src->ptr:
\* with no page mapped the process takes a fault
arcan_frameserver_resize(x, p, w, h, in) ==
  LET src == x.pr[p]
      sz == arcan_shmif_getsize(abs(w), abs(h))
      x0 == [Log(x, "resize") EXCEPT !.pr[p].rzsz = sz]
  IN IF sz > ARCAN_SHMPAGE_MAX_SZ THEN Log(x0, "resize:false")
     ELSE IF within_gain(sz, src.shmsize) THEN Log(x0, "resize:true")
     ELSE IF ~src.ptr THEN [Log(x0, "fault") EXCEPT !.pc = "fault"]
     ELSE resize_remap(x0, p, sz, in)

-----------------------------------------------------------------------------
(* Connection listener and verifier *)

\* the send_key label of socketverify up to its write loop
send_key(x, p) ==
  LET tgt == x.pr[p] IN
  [Log(x, "send_key") EXCEPT
     !.pr[p].sockinbuf = snprintf_buf(tgt.sockinbuf, PP_SHMPAGE_SHMKEYLIM, tgt.key),
     !.ntw = snprintf_ret(tgt.key),
     !.rtc = SEND_RETRIES,
     !.wofs = 0,
     !.pc = "send_key",
     !.cur = p]

\* the overflow check with > for >=
overflow_check_gt(x, p, in) ==
  LET tgt == x.pr[p]
      ge == IF tgt.mem = "freed" THEN in.dangling_ge
            ELSE tgt.sockrofs > PP_SHMPAGE_SHMKEYLIM
  IN IF ge THEN arcan_frameserver_free(x, p, in.os) ELSE x

\* if (tgt->sockrofs >= PP_SHMPAGE_SHMKEYLIM) arcan_frameserver_free(tgt);
\* after a free earlier in the same call tgt dangles, and what the read of
\* sockrofs yields is in.dangling_ge
overflow_check(x, p, in) ==
  LET tgt == x.pr[p]
      ge == IF tgt.mem = "freed" THEN in.dangling_ge
            ELSE tgt.sockrofs >= PP_SHMPAGE_SHMKEYLIM
  IN IF ge THEN arcan_frameserver_free(x, p, in.os) ELSE x

\* tgt->sockinbuf[tgt->sockrofs++] = ch
store_byte(x, p, ch) ==
  LET tgt == x.pr[p] IN
  [x EXCEPT !.pr[p].sockinbuf =
              IF tgt.sockrofs + 1 <= PP_SHMPAGE_SHMKEYLIM
                THEN [@ EXCEPT ![tgt.sockrofs + 1] = ch] ELSE @,
            !.pr[p].oob = @ \/ tgt.sockrofs + 1 > PP_SHMPAGE_SHMKEYLIM,
            !.pr[p].sockrofs = @ + 1]

\* socketverify, FFUNC_POLL.  in.av: what fd_avail reports ("none", "term",
\* "avail"); in.rd: what read() does, n the bytes delivered and ch the byte
socketverify_poll(x, p, in) ==
  LET tgt == x.pr[p]
      x0 == Log(x, "socketverify:POLL")
  IN
  IF tgt.clientkey[1] = NUL THEN send_key(x0, p)
  ELSE IF in.av # "avail"
    THEN IF in.av = "term" THEN arcan_frameserver_free(x0, p, in.os) ELSE x0
  ELSE
    LET ch == IF in.rd.n = 1 THEN in.rd.ch ELSE LF
        xr == [x0 EXCEPT
                 !.pr[p].nobyte = @ \/ in.rd.n # 1,
                 !.pr[p].gotNL = @ \/ (in.rd.n = 1 /\ in.rd.ch = LF),
                 !.pr[p].rd = IF in.rd.n = 1 /\ in.rd.ch # LF
                                THEN Append(@, in.rd.ch) ELSE @]
    IN IF ch = LF
         THEN LET buf == memset_tail(tgt.sockinbuf, tgt.sockrofs)
                  x1 == [xr EXCEPT !.pr[p].sockinbuf = buf]
              IN IF memcmp_nodep(buf, tgt.clientkey, PP_SHMPAGE_SHMKEYLIM)
                   THEN send_key([x1 EXCEPT !.pr[p].verdict = "match"], p)
                   ELSE overflow_check(
                          arcan_frameserver_free(
                            [x1 EXCEPT !.pr[p].verdict = "mismatch"], p, in.os),
                          p, in)
         ELSE overflow_check(store_byte(xr, p, ch), p, in)

\* socketverify, FFUNC_DESTROY
socketverify_destroy(x, p) ==
  LET tgt == x.pr[p]
      x0 == Log(x, "socketverify:DESTROY")
  IN IF tgt.sockaddr # NoPath THEN unlink(x0, p, tgt.sockaddr) ELSE x0

\* the accept branch without the unlink of the path
socketpoll_accepted_no_unlink(x, p) ==
  LET tgt == x.pr[p]
      x1 == Log(close(x, tgt.sockout_fd), "close:listen")
      x2 == Log([x1 EXCEPT !.pr[p].sockout_fd = ASock(p)], "sockout_fd:accepted")
      x3 == Log([x2 EXCEPT !.pr[p].feed = "socketverify"], "alterfeed:socketverify")
  IN IF tgt.sockaddr # NoPath
       THEN Log([x3 EXCEPT !.pr[p].sockaddr = NoPath], "unlink:sockaddr")
       ELSE x3

\* the accept branch without tgt->sockaddr = NULL
socketpoll_accepted_keeps_sockaddr(x, p) ==
  LET tgt == x.pr[p]
      x1 == Log(close(x, tgt.sockout_fd), "close:listen")
      x2 == Log([x1 EXCEPT !.pr[p].sockout_fd = ASock(p)], "sockout_fd:accepted")
      x3 == Log([x2 EXCEPT !.pr[p].feed = "socketverify"], "alterfeed:socketverify")
  IN IF tgt.sockaddr # NoPath
       THEN Log(unlink(x3, p, tgt.sockaddr), "unlink:sockaddr")
       ELSE x3

\* the accept branch of socketpoll: close the listener, take the accepted
\* socket, switch the feed, unlink and forget the path
socketpoll_accepted(x, p) ==
  LET tgt == x.pr[p]
      x1 == Log(close(x, tgt.sockout_fd), "close:listen")
      x2 == Log([x1 EXCEPT !.pr[p].sockout_fd = ASock(p)], "sockout_fd:accepted")
      x3 == Log([x2 EXCEPT !.pr[p].feed = "socketverify"], "alterfeed:socketverify")
  IN IF tgt.sockaddr # NoPath
       THEN Log([unlink(x3, p, tgt.sockaddr) EXCEPT !.pr[p].sockaddr = NoPath],
                "unlink:sockaddr")
       ELSE x3

\* socketpoll, FFUNC_POLL.  in.av: fd_avail on the listening socket; in.acc:
\* accept() returns a connection; in.v: the inputs of the verify step
socketpoll_poll(x, p, in) ==
  LET tgt == x.pr[p]
      x0 == Log(x, "socketpoll:POLL")
  IN
  IF ~tgt.ptr THEN x0
  ELSE IF in.av # "avail"
    THEN IF in.av = "term" THEN arcan_frameserver_free(x0, p, in.os) ELSE x0
  ELSE IF ~in.acc THEN x0
  ELSE socketverify_poll(
         socketpoll_accepted(
           Log([x0 EXCEPT !.fds[ASock(p)] = "open"], "accept"), p),
         p, in.v)

\* socketpoll, FFUNC_DESTROY
socketpoll_destroy(x, p, os) ==
  LET tgt == x.pr[p]
      x0 == Log(x, "socketpoll:DESTROY")
  IN
  IF ~tgt.ptr THEN x0
  ELSE
    LET x1 == IF tgt.sockaddr # NoPath
                THEN [unlink(close(x0, tgt.sockout_fd), p, tgt.sockaddr)
                        EXCEPT !.pr[p].sockaddr = NoPath]
                ELSE x0
    IN arcan_frameserver_free(x1, p, os)


\* a write() that returns 0 takes the else branch of the loop with nothing to
\* subtract or add; the call is kept in the log of the handler
zero_write(x, rc) == IF rc = 0 THEN Log(x, "write:0") ELSE x

\* the zero-byte writes in a log
ZeroWrites(t) == Cardinality({i \in DOMAIN t : t[i] = "write:0"})

\* one iteration of the write loop of send_key; rc is what write() returns
\* (-1 on error) and again whether the error is EAGAIN, EWOULDBLOCK or EINTR
send_key_write(x, p, rc, again) ==
  LET tgt == x.pr[p] IN
  IF rc = 0 - 1
    THEN [x EXCEPT !.rtc = IF again THEN @ - 1 ELSE 0]
    ELSE [zero_write(x, rc) EXCEPT
            !.ntw = @ - rc,
            !.wofs = @ + rc,
            !.wrote[p] = @ \o [i \in 1..rc |-> tgt.sockinbuf[x.wofs + i]]]

\* socketverify after the write loop
send_key_end(x, p, os) ==
  IF x.rtc <= 0
    THEN [arcan_frameserver_free(x, p, os) EXCEPT !.pc = "idle"]
    ELSE [Log(x, "alterfeed:emptyframe") EXCEPT
            !.pr[p].feed = "emptyframe",
            !.pr[p].aid = TRUE,
            !.pr[p].sent = TRUE,
            !.pc = "idle"]

\* the ready feed: a PR found dead by the liveness check is destroyed
emptyframe_poll(x, p, pollbad, ec, os) ==
  IF arcan_frameserver_validchild(x.pr[p], pollbad, ec)
    THEN Log(x, "emptyframe:POLL")
    ELSE arcan_frameserver_free(Log(x, "emptyframe:POLL"), p, os)

emptyframe_destroy(x, p, os) ==
  arcan_frameserver_free(Log(x, "emptyframe:DESTROY"), p, os)

\* arcan_video_deleteobject has dropped the video object after FFUNC_DESTROY
vobj_deleted(x, p) == [x EXCEPT !.pr[p].feed = "deleted"]

-----------------------------------------------------------------------------
(* Subsegment spawner *)

Event(kind, input, tag, message) ==
  [kind |-> kind, input |-> input, tag |-> tag, message |-> message]

\* arcan_event_enqueue on the outbound queue of p
arcan_event_enqueue(x, p, ev) ==
  Log([x EXCEPT !.outq[p] = Append(@, ev)], ev.kind)

\* arcan_frameserver_pushevent
arcan_frameserver_pushevent(x, p, ev) == arcan_event_enqueue(x, p, ev)

\* arcan_frameserver_pushfd(fsrv, fd).  fdzero: the descriptor is number 0;
\* push_ok: arcan_pushhandle succeeds
arcan_frameserver_pushfd(x, fsrv, fd, fdzero, push_ok) ==
  IF fdzero THEN Log(x, "pushfd:badarg")
  ELSE IF push_ok
    THEN arcan_frameserver_pushevent(
           Log([x EXCEPT !.inbox[fsrv] = Append(@, fd)], "pushhandle"),
           fsrv, Event("FDTRANSFER", 0, 0, << >>))
    ELSE Log(x, "pushhandle:fail")

\* hintw < 0 || hintw > ARCAN_SHMPAGE_MAXW ? 32 : hintw
clamp_hint(hint, max) == IF hint < 0 \/ hint > max THEN 32 ELSE hint

\* snprintf(message, COUNT_OF(message), "%s", key); the size of the message
\* field of a target event comes from the shared-memory interface header
TARGET_MESSAGE_SZ == 78
snprintf_message(key) ==
  IF Len(key) < TARGET_MESSAGE_SZ THEN key ELSE SubSeq(key, 1, TARGET_MESSAGE_SZ - 1)

keyev_no_tag(input, tag, key) ==
  Event("NEWSEGMENT", IF input THEN 1 ELSE 0, 0, snprintf_message(key))

\* the event spawn_subsegment builds: kind NEWSEGMENT, ioevs[0] the input
\* flag, ioevs[1] the tag, message the segment key
keyev(input, tag, key) ==
  Event("NEWSEGMENT", IF input THEN 1 ELSE 0, tag, snprintf_message(key))

\* arcan_frameserver_spawn_subsegment(ctx, input, hintw, hinth, tag) from the
\* allocation of newseg on; new is the record arcan_frameserver_alloc returns.
\* in.n, in.res: the key and the result of shmalloc; in.vid_ok: the video
\* object is made; in.pair: "fail", "ok" or "fdzero" for socketpair
spawn_subsegment_alloc(x, ctx, new, input, hintw, hinth, tag, in) ==
  LET x0 == [x EXCEPT !.pr[new] = [FreshPR EXCEPT !.origin = "subsegment",
                                                  !.parent = ctx]]
      x1 == shmalloc(x0, new, FALSE, NoPath, in.n, in.res)
      w == clamp_hint(hintw, ARCAN_SHMPAGE_MAXW)
      h == clamp_hint(hinth, ARCAN_SHMPAGE_MAXH)
  IN
  IF ~shmalloc_returns(in.res) THEN arcan_frameserver_free(x1, new, in.os)
  ELSE IF ~in.vid_ok THEN arcan_frameserver_free(x1, new, in.os)
  ELSE
    LET x2 == Log([x1 EXCEPT !.pr[new].w = w, !.pr[new].h = h], "dims")
        x3 == [x2 EXCEPT !.pr[new].aid = ~input,
                         !.pr[new].feed = "emptyframe",
                         !.pr[new].subsegment = TRUE]
        x4 == IF in.pair = "fail" THEN Log(x3, "socketpair:fail")
              ELSE arcan_frameserver_pushfd(
                     [Log(x3, "socketpair") EXCEPT
                        !.fds[Pair0(new)] = "open",
                        !.fds[Pair1(new)] = "open",
                        !.pr[new].sockout_fd = Pair0(new)],
                     ctx, Pair1(new), in.pair = "fdzero", in.push_ok)
        ev == keyev(input, tag, x4.pr[new].key)
        x5 == [x4 EXCEPT !.pr[new].child = x4.pr[ctx].child,
                         !.pr[new].alive = TRUE]
    IN [arcan_event_enqueue(x5, ctx, ev) EXCEPT
          !.pr[new].returned = TRUE,
          !.pr[new].hint = <<hintw, hinth>>,
          !.pr[new].input = input,
          !.pr[new].tag = tag]

\* arcan_frameserver_spawn_subsegment; ctx is NoPR for a NULL pointer
arcan_frameserver_spawn_subsegment(x, ctx, new, input, hintw, hinth, tag, in) ==
  LET x0 == Log(x, "spawn_subsegment") IN
  IF ctx = NoPR THEN x0
  ELSE IF x0.pr[ctx].alive = FALSE THEN x0
  ELSE spawn_subsegment_alloc(x0, ctx, new, input, hintw, hinth, tag, in)

\* arcan_frameserver_spawn_server, the parent's side of the fork: pid is what
\* fork returns; the record ctx was made by the caller
arcan_frameserver_spawn_server(x, p, in, pid) ==
  LET x0 == [Log(x, "spawn_server") EXCEPT !.pr[p] = [FreshPR EXCEPT !.origin = "server"]]
      x1 == shmalloc(x0, p, FALSE, NoPath, in.n, in.res)
      x2 == IF in.pair = "fail" THEN x1
            ELSE [x1 EXCEPT !.fds[Pair0(p)] = "open", !.fds[Pair1(p)] = "closed",
                            !.pr[p].sockout_fd = Pair0(p)]
  IN [x2 EXCEPT !.pr[p].feed = "emptyframe",
                !.pr[p].child = pid,
                !.pr[p].returned = TRUE]

-----------------------------------------------------------------------------
(* Inputs *)

FdAvail == {"none", "term", "avail"}

\* the environment variable and the outcome of pthread_create, read by
\* killchild alone
OsIn == [thread_ok : BOOLEAN, env_nonanny : BOOLEAN]
OsAny == [thread_ok |-> TRUE, env_nonanny |-> FALSE]

\* killchild reads them only for a record that is no subsegment and has a
\* child above 1, getenv only at its first call and pthread_create only
\* without ARCAN_DEBUG_NONANNY; where none is read one value stands for all
OsFor(src) ==
  IF src.subsegment \/ src.child <= 1 THEN {OsAny}
  ELSE IF nanny.env_checked
    THEN (IF nanny.no_nanny THEN {OsAny}
          ELSE {[thread_ok |-> t, env_nonanny |-> FALSE] : t \in BOOLEAN})
    ELSE {o \in OsIn : o.env_nonanny => o.thread_ok}
NoRead == [n |-> 0, ch |-> LF]

\* what a read() of one byte can do: past the first MaxVaried positions the
\* client sends the filler "A" or the newline
Reads(tgt) ==
  {NoRead} \cup
  {[n |-> 1, ch |-> c] :
     c \in IF tgt.sockrofs < MaxVaried THEN {65, 66, NUL, LF} ELSE {65, LF}}

Filler(n) == [i \in 1..n |-> 65]

\* the keys the host expects: none (accept first), "A", "AB", and 31 times "A"
ClientKeys ==
  {ZeroBuf, KeyBuf(<<65>>), KeyBuf(<<65, 66>>),
   KeyBuf(Filler(PP_SHMPAGE_SHMKEYLIM - 1))}

\* the zero-byte writes drawn in one call of the handler
MaxZeroWrites == 1

\* lengths of the segment key: the shortest and the two longest the data model
\* permits
SegKeyLens == {1, PP_SHMPAGE_SHMKEYLIM - 2, PP_SHMPAGE_SHMKEYLIM - 1}

\* validchild polls the socket only when the child is the sentinel, and calls
\* waitpid (which returns -1, 0 or the pid) only when it is not
PollBad(src) == IF src.child = BROKEN_PROCESS_HANDLE THEN BOOLEAN ELSE {FALSE}
WaitPid(src) == IF src.child = BROKEN_PROCESS_HANDLE THEN {0} ELSE {0 - 1, 0, src.child}

VerifyIn(tgt) ==
  {[av |-> a, rd |-> NoRead, os |-> o, dangling_ge |-> FALSE] :
     a \in {"none", "term"}, o \in OsFor(tgt)}
  \cup
  {[av |-> "avail", rd |-> r, os |-> o, dangling_ge |-> d] :
     r \in Reads(tgt), d \in BOOLEAN, o \in OsFor(tgt)}

PollIn(tgt) ==
  {[av |-> a, acc |-> FALSE, os |-> o, v |-> CHOOSE i \in VerifyIn(tgt) : TRUE] :
     a \in FdAvail, o \in OsFor(tgt)}
  \cup
  {[av |-> "avail", acc |-> TRUE, os |-> i.os, v |-> i] : i \in VerifyIn(tgt)}

-----------------------------------------------------------------------------
(* Actions of the listener and verifier *)

NewTick == [World EXCEPT !.tick = << >>]

\* arcan_frameserver_listen_external(key), and the caller's setting of the
\* key it expects from the client
ListenExternalWith(p, lens, cks, results) ==
  /\ pc = "idle"
  /\ pr[p].mem = "none"
  /\ \E path \in Paths, n \in lens, ck \in cks, res \in results :
       LET x0 == [NewTick EXCEPT !.pr[p] = [FreshPR EXCEPT !.origin = "listen"]]
           x1 == shmalloc(x0, p, TRUE, path, n, res)
       IN IF ~shmalloc_returns(res)
            THEN Commit([x1 EXCEPT !.pr[p].mem = "leaked"])
            ELSE Commit([x1 EXCEPT !.pr[p].child = BROKEN_PROCESS_HANDLE,
                                   !.pr[p].feed = "socketpoll",
                                   !.pr[p].returned = TRUE,
                                   !.pr[p].clientkey = ck])

ListenExternal(p) == ListenExternalWith(p, SegKeyLens, ClientKeys, ShmallocResults)

SocketPollPoll(p) ==
  /\ pc = "idle"
  /\ pr[p].feed = "socketpoll"
  /\ \E in \in PollIn(pr[p]) : Commit(socketpoll_poll(NewTick, p, in))

SocketPollDestroy(p) ==
  /\ pc = "idle"
  /\ pr[p].feed = "socketpoll"
  /\ \E o \in OsFor(pr[p]) : Commit(vobj_deleted(socketpoll_destroy(NewTick, p, o), p))

SocketVerifyPoll(p) ==
  /\ pc = "idle"
  /\ pr[p].feed = "socketverify"
  /\ \E in \in VerifyIn(pr[p]) : Commit(socketverify_poll(NewTick, p, in))

SocketVerifyDestroy(p) ==
  /\ pc = "idle"
  /\ pr[p].feed = "socketverify"
  /\ Commit(vobj_deleted(socketverify_destroy(NewTick, p), p))

\* what write() returns when it does not fail: 0..ntw, the zero-byte write
\* at most MaxZeroWrites times in one call of the handler
WriteReturns(t, n) == (IF ZeroWrites(t) < MaxZeroWrites THEN 0 ELSE 1)..n

SendKeyWrite ==
  /\ pc = "send_key"
  /\ rtc # 0 /\ ntw # 0
  /\ \/ \E rc \in WriteReturns(tick, ntw) : Commit(send_key_write(World, cur, rc, FALSE))
     \/ \E again \in BOOLEAN : Commit(send_key_write(World, cur, 0 - 1, again))

SendKeyEnd ==
  /\ pc = "send_key"
  /\ ~(rtc # 0 /\ ntw # 0)
  /\ \E o \in OsFor(pr[cur]) : Commit(send_key_end(World, cur, o))

EmptyFramePoll(p) ==
  /\ pc = "idle"
  /\ pr[p].feed = "emptyframe"
  /\ \E pollbad \in PollBad(pr[p]), ec \in WaitPid(pr[p]) :
       \* the supervisor's inputs are read only when the record is destroyed
       \E t \in (IF arcan_frameserver_validchild(pr[p], pollbad, ec)
                   THEN {OsAny} ELSE OsFor(pr[p])) :
         Commit(emptyframe_poll(NewTick, p, pollbad, ec, t))

EmptyFrameDestroy(p) ==
  /\ pc = "idle"
  /\ pr[p].feed = "emptyframe"
  /\ \E t \in OsFor(pr[p]) : Commit(vobj_deleted(emptyframe_destroy(NewTick, p, t), p))

-----------------------------------------------------------------------------
(* The listener and verifier, one named listener *)

InitWorld ==
  /\ pr = [p \in PRIds |-> NoRecord]
  /\ ns = [path \in Paths |-> NoSock]
  /\ fds = [s \in SockIds |-> "unused"]
  /\ wrote = [p \in PRIds |-> << >>]
  /\ outq = [p \in PRIds |-> << >>]
  /\ inbox = [p \in PRIds |-> << >>]
  /\ oslog = {}
  /\ unlinked = [p \in PRIds |-> 0]
  /\ nfree = [p \in PRIds |-> 0]
  /\ tick = << >>
  /\ pc = "idle"
  /\ cur = NoPR
  /\ rtc = 0 /\ ntw = 0 /\ wofs = 0
  /\ nanny = [env_checked |-> FALSE, no_nanny |-> FALSE]

\* no call of validchild observed, no worker started, arcan-net not started
NoCall == [called |-> FALSE]
NoWorker == [pc |-> "none"]
NoNet == [pc |-> "none"]
NoCli == [pc |-> "none"]
NoProc == [state |-> "none"]

\* the host alone: the other components at rest
HostOnly ==
  /\ vc = NoCall /\ reaper = NoWorker /\ net = NoNet /\ cli = NoCli /\ addr = NoCall
  /\ proc = NoProc

\* the variables of the host, which the other components leave alone
host == <<pr, ns, fds, wrote, outq, inbox, oslog, unlinked, nfree, tick, pc, cur,
          rtc, ntw, wofs, nanny>>

\* the slot of the one listener: the first
Listener == CHOOSE p \in PRIds : \A q \in PRIds : p <= q

Init == InitWorld /\ HostOnly

Next ==
  \/ ListenExternal(Listener)
  \/ SocketPollPoll(Listener)
  \/ SocketPollDestroy(Listener)
  \/ SocketVerifyPoll(Listener)
  \/ SocketVerifyDestroy(Listener)
  \/ SendKeyWrite
  \/ SendKeyEnd
  \/ EmptyFramePoll(Listener)
  \/ EmptyFrameDestroy(Listener)

Spec == Init /\ [][Next]_vars


-----------------------------------------------------------------------------
(* The subsegment spawner and the child supervisor *)

\* the pid fork returns for the child of PR p: above 1, one per child
Pid(p) == 1 + p

\* hints: each of w and h takes a value below, at and above both ends of its
\* range, and the default
HintPairs ==
  { <<0 - 1, 0>>, <<0, ARCAN_SHMPAGE_MAXH + 1>>, <<1, ARCAN_SHMPAGE_MAXH>>,
    <<ARCAN_SHMPAGE_MAXW, 1>>, <<ARCAN_SHMPAGE_MAXW + 1, 32>>, <<32, 0 - 1>>,
    <<32, 32>> }

SSKeyLens == {2}

\* what the system calls of a spawn return; a result is enumerated only
\* where the call is reached and its result read
SpawnIn ==
  {[n |-> n, res |-> r, vid_ok |-> TRUE, pair |-> "ok", push_ok |-> TRUE, os |-> OsAny] :
     n \in SSKeyLens, r \in {"truncfail", "mapfail"}}
  \cup
  {[n |-> n, res |-> "ok", vid_ok |-> FALSE, pair |-> "ok", push_ok |-> TRUE, os |-> OsAny] :
     n \in SSKeyLens}
  \cup
  {[n |-> n, res |-> "ok", vid_ok |-> TRUE, pair |-> s, push_ok |-> TRUE, os |-> OsAny] :
     n \in SSKeyLens, s \in {"fail", "fdzero"}}
  \cup
  {[n |-> n, res |-> "ok", vid_ok |-> TRUE, pair |-> "ok", push_ok |-> k, os |-> OsAny] :
     n \in SSKeyLens, k \in BOOLEAN}

OkIn == CHOOSE in \in SpawnIn : in.res = "ok" /\ in.vid_ok /\ in.pair = "ok" /\ in.push_ok

\* the calls of spawn_subsegment: the hints, the flag and tag, and the results
\* of the system calls are each varied with the others at their usual values
SpawnCalls ==
  {[input |-> FALSE, hint |-> h, tag |-> 0, in |-> OkIn] : h \in HintPairs}
  \cup
  {[input |-> i, hint |-> <<32, 32>>, tag |-> t, in |-> OkIn] :
     i \in BOOLEAN, t \in 0..MaxTag}
  \cup
  {[input |-> FALSE, hint |-> <<32, 32>>, tag |-> 0, in |-> in] : in \in SpawnIn}

\* spawn_server reads neither the result of shmalloc nor makes the video
\* object fail the call
SpawnServerIn ==
  {[n |-> n, res |-> r, vid_ok |-> TRUE, pair |-> s, push_ok |-> TRUE, os |-> OsAny] :
     n \in SSKeyLens, r \in {"ok"}, s \in {"ok"}}

FreeSlots == {p \in PRIds : pr[p].mem = "none"}
NextSlot == CHOOSE p \in FreeSlots : \A q \in FreeSlots : p <= q

\* the records the host can reach through a video object
Reachable == {p \in PRIds : pr[p].mem = "live" /\ pr[p].returned
                            /\ pr[p].feed \in {"socketpoll", "socketverify", "emptyframe"}}

SpawnServer ==
  /\ pc = "idle"
  /\ FreeSlots # {}
  /\ \E in \in SpawnServerIn :
       Commit(arcan_frameserver_spawn_server(NewTick, NextSlot, in, Pid(NextSlot)))

SpawnSubsegment ==
  /\ pc = "idle"
  /\ FreeSlots # {}
  /\ \E ctx \in Reachable \cup {NoPR}, c \in SpawnCalls :
       Commit(arcan_frameserver_spawn_subsegment(
                NewTick, ctx, NextSlot, c.input, c.hint[1], c.hint[2], c.tag, c.in))

KillChild ==
  /\ pc = "idle"
  /\ \E p \in Reachable : \E o \in OsFor(pr[p]) :
       Commit(arcan_frameserver_killchild(Log(NewTick, "killchild"), p, o))

ListenAcceptFirst ==
  /\ FreeSlots # {}
  /\ ListenExternalWith(NextSlot, SSKeyLens, {ZeroBuf}, {"ok"})

InitSS == InitWorld /\ HostOnly

NextSS ==
  \/ SpawnServer
  \/ ListenAcceptFirst
  \/ SpawnSubsegment
  \/ KillChild
  \/ \E p \in PRIds : SocketPollDestroy(p)
  \/ \E p \in PRIds : EmptyFramePoll(p)
  \/ \E p \in PRIds : EmptyFrameDestroy(p)

SpecSS == InitSS /\ [][NextSS]_vars

-----------------------------------------------------------------------------
(* The resizer: one PR, a listener or a server, and the polls of its feed *)

\* the widths and heights: none, small, the largest, and a negative one
Dims == (0..MaxDim) \cup {0 - MaxDim}
ResizeIn == [trunc_ok : BOOLEAN, map_ok : BOOLEAN, page : {"kept", "dms"}]
ResizeOk == [trunc_ok |-> TRUE, map_ok |-> TRUE, page |-> "kept"]

\* ftruncate and mmap are reached only past the size tests, with a page mapped
ResizeInFor(src, w, h) ==
  LET sz == arcan_shmif_getsize(abs(w), abs(h))
  IN IF sz > ARCAN_SHMPAGE_MAX_SZ \/ within_gain(sz, src.shmsize) \/ ~src.ptr
       THEN {ResizeOk}
       ELSE {ResizeOk, [ResizeOk EXCEPT !.page = "dms"],
             [ResizeOk EXCEPT !.trunc_ok = FALSE],
             [ResizeOk EXCEPT !.map_ok = FALSE]}

Resize(p) ==
  /\ pc = "idle"
  /\ p \in Reachable
  /\ \E w \in Dims, h \in Dims : \E in \in ResizeInFor(pr[p], w, h) :
       Commit(arcan_frameserver_resize(NewTick, p, w, h, in))

SpawnServerOne ==
  /\ pc = "idle"
  /\ pr[Listener].mem = "none"
  /\ \E in \in SpawnServerIn :
       Commit(arcan_frameserver_spawn_server(NewTick, Listener, in, Pid(Listener)))

ListenOne == ListenExternalWith(Listener, SSKeyLens, {ZeroBuf}, {"ok"})

InitRZ == InitWorld /\ HostOnly

NextRZ ==
  \/ SpawnServerOne
  \/ ListenOne
  \/ Resize(Listener)
  \/ SocketPollPoll(Listener)
  \/ SocketPollDestroy(Listener)
  \/ SendKeyWrite
  \/ SendKeyEnd
  \/ EmptyFramePoll(Listener)
  \/ EmptyFrameDestroy(Listener)

SpecRZ == InitRZ /\ [][NextRZ]_vars

-----------------------------------------------------------------------------
(* Claims about the listener and verifier *)

Listeners == {p \in PRIds : pr[p].origin = "listen" /\ pr[p].returned}
KeyExpected(p) == pr[p].clientkey[1] # NUL
Gone(p) == pr[p].feed \in {"null", "deleted"}

\* C1: on a non-authoritative PR a byte of the segment key is written to the
\* control socket only if no client key is expected, or the client sent a
\* newline and the bytes it sent before it, NUL-padded to the key cap, equal
\* the expected client key.
C1_KeyGated ==
  \A p \in Listeners :
    wrote[p] # << >> =>
      \/ ~KeyExpected(p)
      \/ /\ pr[p].gotNL
         /\ Len(pr[p].rd) <= PP_SHMPAGE_SHMKEYLIM
         /\ KeyBuf(pr[p].rd) = pr[p].clientkey

\* C2: with a client key expected, a newline whose padded input differs from
\* the key destroys the PR in that tick, exactly once, and the segment key is
\* never written.
C2_MismatchDestroysOnce ==
  \A p \in Listeners :
    (KeyExpected(p) /\ pr[p].gotNL /\ pr[p].verdict = "mismatch") =>
      /\ nfree[p] = 1
      /\ Gone(p)
      /\ wrote[p] = << >>

\* C3: with a client key expected, a client whose first 32 bytes hold no
\* newline gets the PR destroyed, the input offset never exceeds the cap, no
\* byte is stored past the input buffer and the segment key is never written.
C3_Overflow ==
  \A p \in Listeners :
    KeyExpected(p) =>
      /\ pr[p].sockrofs <= PP_SHMPAGE_SHMKEYLIM
      /\ ~pr[p].oob
      /\ Len(pr[p].rd) >= PP_SHMPAGE_SHMKEYLIM =>
           /\ nfree[p] >= 1
           /\ pr[p].mem = "freed"
           /\ Gone(p)
           /\ wrote[p] = << >>

C3_Witness ==
  \E p \in Listeners :
    /\ KeyExpected(p)
    /\ Len(pr[p].rd) = PP_SHMPAGE_SHMKEYLIM
    /\ pr[p].rd[2] = 66
    /\ pr[p].mem = "freed"

AcceptTick ==
  <<"socketpoll:POLL", "accept", "close:listen", "sockout_fd:accepted",
    "alterfeed:socketverify", "unlink:sockaddr", "socketverify:POLL">>

\* C4: once a poll in socket-listening has accepted a connection, the
\* listening socket is closed, the control socket is the accepted socket, the
\* listener path is out of the namespace and forgotten by the PR, and the feed
\* is no longer socket-listening; in the tick of the accept these steps were
\* taken in this order, the feed became socket-verifying and the verify step
\* ran on the same poll.
C4_Accept ==
  \A p \in Listeners :
    fds[ASock(p)] # "unused" =>
      /\ fds[LSock(p)] = "closed"
      /\ pr[p].sockout_fd = ASock(p)
      /\ ns[pr[p].lpath] = NoSock
      /\ pr[p].sockaddr = NoPath
      /\ pr[p].feed # "socketpoll"
      /\ (Len(tick) >= 2 /\ tick[2] = "accept") =>
           /\ Len(tick) >= Len(AcceptTick)
           /\ SubSeq(tick, 1, Len(AcceptTick)) = AcceptTick

C4_Witness ==
  \E p \in Listeners :
    /\ fds[ASock(p)] = "open"
    /\ pr[p].alive
    /\ pr[p].feed = "socketverify"
    /\ pc = "idle"
    /\ Len(tick) >= 2 /\ tick[2] = "accept"

\* C5: the path bound for a named listener is unlinked at most once, and
\* exactly once by the time the PR's lifetime has ended.
C5_UnlinkOnce ==
  \A p \in Listeners :
    /\ unlinked[p] <= 1
    /\ Gone(p) => unlinked[p] = 1

C5_Witness ==
  \E p \in Listeners :
    /\ Gone(p)
    /\ fds[ASock(p)] = "unused"
    /\ unlinked[p] = 1
    /\ tick = <<"socketpoll:POLL", "free">>

\* C6: the bytes written by a successful send-key are the characters of the
\* segment key followed by one newline, and nothing else.
C6_SendKeyBytes ==
  \A p \in Listeners :
    pr[p].sent => wrote[p] = pr[p].key \o <<LF>>

-----------------------------------------------------------------------------
(* Claims about the subsegment spawner and the child supervisor *)

Subsegments == {p \in PRIds : pr[p].origin = "subsegment" /\ pr[p].returned}
InSpawnSubsegment == tick # << >> /\ tick[1] = "spawn_subsegment"

\* C7: in a call of spawn_subsegment that enqueues a new-segment-announce, the
\* descriptor handoff and then its fd-transfer-announce happened earlier in
\* the call; so no announce is enqueued when the socketpair or the handoff
\* failed.
C7_AnnounceAfterHandoff ==
  InSpawnSubsegment =>
    \A k \in 1..Len(tick) :
      tick[k] = "NEWSEGMENT" =>
        \E i \in 1..k, j \in 1..k :
          /\ i < j /\ j < k
          /\ tick[i] = "pushhandle"
          /\ tick[j] = "FDTRANSFER"

Announces(q) == SelectSeq(q, LAMBDA e : e.kind = "NEWSEGMENT")
Created(new) == pr[new].mem = "none" /\ pr'[new].origin = "subsegment"

\* C8: a call of spawn_subsegment that returns a new PR appends exactly one
\* new-segment-announce to the parent's outbound queue, carrying the input
\* flag, the tag and the segment key of the new PR, whose child is the
\* parent's and whose subsegment flag is set; a call that returns no PR
\* appends no announce to any queue.
C8_Step ==
  /\ \A new \in PRIds :
       (Created(new) /\ pr'[new].returned) =>
         LET ctx == pr'[new].parent IN
         /\ Announces(outq'[ctx]) =
              Append(Announces(outq[ctx]),
                     Event("NEWSEGMENT", IF pr'[new].input THEN 1 ELSE 0,
                           pr'[new].tag, pr'[new].key))
         /\ \A q \in PRIds \ {ctx} : outq'[q] = outq[q]
         /\ pr'[new].child = pr[ctx].child
         /\ pr'[new].subsegment
  /\ (tick' # << >> /\ tick'[1] = "spawn_subsegment"
        /\ ~\E new \in PRIds : Created(new) /\ pr'[new].returned) =>
       outq' = outq

C8_OneAnnounce == [][C8_Step]_vars

C8_Witness ==
  /\ InSpawnSubsegment
  /\ \E new \in Subsegments :
       /\ pr[new].tag = 1 /\ pr[new].input
       /\ pr[pr[new].parent].origin = "server"
       /\ pr[new].child = Pid(pr[new].parent)
       /\ Len(Announces(outq[pr[new].parent])) = 1
       /\ "FDTRANSFER" \in {tick[k] : k \in 1..Len(tick)}

\* C9: the dimensions spawn_subsegment writes into the control header of the
\* new segment lie in 1..MAXW and 1..MAXH: a hint in the range is kept, any
\* other hint (0 and the negative ones too) becomes 32.
C9_DimsInRange ==
  \A p \in Subsegments :
    pr[p].ptr =>
      /\ pr[p].w \in 1..ARCAN_SHMPAGE_MAXW
      /\ pr[p].h \in 1..ARCAN_SHMPAGE_MAXH
      /\ pr[p].w = IF pr[p].hint[1] \in 1..ARCAN_SHMPAGE_MAXW THEN pr[p].hint[1] ELSE 32
      /\ pr[p].h = IF pr[p].hint[2] \in 1..ARCAN_SHMPAGE_MAXH THEN pr[p].hint[2] ELSE 32

-----------------------------------------------------------------------------
(* Claims about the resizer and the liveness check *)

InResize == tick # << >> /\ tick[1] = "resize"
Ticked(op) == op \in {tick[k] : k \in 1..Len(tick)}
ResizeStep == tick' # << >> /\ tick'[1] = "resize"
ResizeReturned(b) == tick'[Len(tick')] = (IF b THEN "resize:true" ELSE "resize:false")
HandleUnchanged(p) == [pr'[p] EXCEPT !.rzsz = pr[p].rzsz] = pr[p]

C11_Mapped ==
  \A p \in PRIds : pr[p].ptr => pr[p].segment_size = pr[p].shmsize

C11_Step ==
  \A p \in PRIds :
    (ResizeStep /\ pr[p].mem = "live") =>
      /\ ResizeReturned(TRUE) =>
           /\ pr'[p].shmsize >= pr'[p].rzsz
           /\ pr'[p].shmsize <= ARCAN_SHMPAGE_MAX_SZ
      /\ pr'[p].rzsz > ARCAN_SHMPAGE_MAX_SZ =>
           /\ ResizeReturned(FALSE)
           /\ HandleUnchanged(p)

\* C11: whenever the page is mapped the segment_size of the header equals the
\* recorded size of the mapping; after a resize that returns true that size
\* is at least the size required and at most the largest size; a resize
\* that requires more than the largest size returns false and changes
\* nothing.
C11_SizeMatches == []C11_Mapped /\ [][C11_Step]_vars

C11_Witness ==
  /\ InResize /\ Ticked("mmap") /\ Ticked("resize:true")
  /\ \E p \in PRIds :
       /\ pr[p].ptr
       /\ pr[p].shmsize = pr[p].rzsz
       /\ pr[p].shmsize > ARCAN_SHMPAGE_START_SZ

\* C12: a resize that requires less than the mapped size S but more than
\* 0.8 S returns true with nothing unmapped, truncated or mapped, and with
\* the handle and the header as they were.
C12_Step ==
  \A p \in PRIds :
    (ResizeStep /\ pr[p].mem = "live"
       /\ pr'[p].rzsz < pr[p].shmsize /\ 10 * pr'[p].rzsz > 8 * pr[p].shmsize) =>
      /\ ResizeReturned(TRUE)
      /\ tick' = <<"resize", "resize:true">>
      /\ HandleUnchanged(p)

C12_NoThrash == [][C12_Step]_vars

C12_Witness ==
  /\ tick = <<"resize", "resize:true">>
  /\ \E p \in PRIds :
       /\ pr[p].ptr
       /\ pr[p].rzsz < pr[p].shmsize
       /\ pr[p].segment_size = pr[p].shmsize

InPoll == tick # << >> /\ tick[1] \in {"emptyframe:POLL", "socketpoll:POLL"}

\* C13: a PR whose handle a failed resize left without a mapped page is found
\* dead by the next poll of its feed: the poll destroys it.
C13_DeadAfterFailedResize ==
  \A p \in PRIds :
    (pr[p].returned /\ ~pr[p].ptr /\ InPoll) => Gone(p)

-----------------------------------------------------------------------------
(* The liveness check on its own: arcan_frameserver_validchild applied to  *)
(* every handle it can be given and every outcome of poll and waitpid      *)

POLLMASK == {"POLLERR", "POLLHUP", "POLLNVAL"}

\* poll(&fds, 1, 0) with events = mask: it fails (errno EINTR or another),
\* reports nothing, or reports a nonempty set of the conditions asked for;
\* revents starts zeroed and a failing poll leaves it
PollOutcomes ==
  {[rv |-> 0 - 1, eintr |-> e, revents |-> {}] : e \in BOOLEAN}
  \cup {[rv |-> 0, eintr |-> FALSE, revents |-> {}]}
  \cup {[rv |-> 1, eintr |-> FALSE, revents |-> r] : r \in (SUBSET POLLMASK) \ {{}}}

poll_dead_any_failure(po) ==
  po.rv = 0 - 1 \/ (po.revents \cap POLLMASK) # {}

\* (-1 == poll(..) && errno != EINTR) || (fds.revents & mask) > 0
poll_dead(po) ==
  (po.rv = 0 - 1 /\ ~po.eintr) \/ (po.revents \cap POLLMASK) # {}

\* the handles: alive or not, without a child or with one of two, with a
\* control socket or without
Handles ==
  {[alive |-> a, child |-> c, sockout_fd |-> s] :
     a \in BOOLEAN,
     c \in {BROKEN_PROCESS_HANDLE} \cup {Pid(p) : p \in PRIds},
     s \in {NoSock, ASock(Listener)}}

\* waitpid(child, &status, WNOHANG): an error, nothing yet, the child, or
\* (for a caller that passed another pid) that pid
WaitPidOutcomes == {0 - 1, 0} \cup {Pid(p) : p \in PRIds}

ValidChild ==
  /\ ~vc.called
  /\ \E src \in Handles, po \in PollOutcomes, ec \in WaitPidOutcomes :
       vc' = [called |-> TRUE, src |-> src, po |-> po, ec |-> ec,
              polled |-> src.alive /\ src.child = BROKEN_PROCESS_HANDLE
                           /\ src.sockout_fd # NoSock,
              rv |-> arcan_frameserver_validchild(src, poll_dead(po), ec)]
  /\ UNCHANGED <<host, addr, proc, reaper, net, cli>>

InitVC == InitWorld /\ HostOnly

NextVC == ValidChild

SpecVC == InitVC /\ [][NextVC]_vars

\* C14: check_alive reports a PR whose alive flag is cleared dead; a PR with
\* no child dead exactly when the poll of its control socket reports ERR, HUP
\* or NVAL or fails other than by interruption; a PR with a child dead
\* exactly when waitpid returns that child, alive for 0, -1 and anything else.
C14_CheckAlive ==
  vc.called =>
    LET src == vc.src
        dead == ~vc.rv
    IN /\ ~src.alive => dead
       /\ (src.alive /\ src.child = BROKEN_PROCESS_HANDLE) =>
            (dead <=> /\ vc.polled
                      /\ \/ vc.po.revents \cap {"POLLERR", "POLLHUP", "POLLNVAL"} # {}
                         \/ vc.po.rv < 0 /\ ~vc.po.eintr)
       /\ (src.alive /\ src.child # BROKEN_PROCESS_HANDLE) =>
            (dead <=> vc.ec = src.child)

\* an interrupted poll on a live handle without a child: reported alive
C14_Witness ==
  /\ vc.called /\ vc.src.alive /\ vc.polled
  /\ vc.po.rv < 0 /\ vc.po.eintr
  /\ vc.rv

-----------------------------------------------------------------------------
(* The reaper worker: nanny_thread, one step per waitpid and per sleep     *)

NANNY_TRIES == 10

\* waitpid(*pid, &statusfl, WNOHANG): an error, not yet, or the child
NannyWaitOutcomes(pid) == {0 - 1, 0, pid}

\* the thread starts with the argument it was handed, a pid or NULL:
\* if (pid) { int counter = 10; ...
NannyStart ==
  /\ reaper.pc = "none"
  /\ \/ \E p \in PRIds :
          reaper' = [pc |-> "loop", arg |-> "pid", pid |-> Pid(p),
                     counter |-> NANNY_TRIES, rvs |-> << >>, slept |-> 0,
                     killed |-> FALSE, freed |-> FALSE]
     \/ reaper' = [pc |-> "done", arg |-> "null", pid |-> 0,
                   counter |-> 0, rvs |-> << >>, slept |-> 0,
                   killed |-> FALSE, freed |-> FALSE]
  /\ UNCHANGED <<host, addr, proc, vc, net, cli>>

nanny_round_kill_always(r, rv) ==
  LET counter == r.counter - 1
      r1 == [r EXCEPT !.counter = counter, !.rvs = Append(@, rv)]
  IN IF counter = 0 THEN [r1 EXCEPT !.killed = TRUE, !.pc = "done", !.freed = TRUE]
     ELSE IF rv > 0 THEN [r1 EXCEPT !.pc = "done", !.freed = TRUE]
     ELSE [r1 EXCEPT !.pc = "sleep"]

\* one round of while (counter--): the waitpid, the two breaks, free(pid)
nanny_round(r, rv) ==
  LET counter == r.counter - 1
      r1 == [r EXCEPT !.counter = counter, !.rvs = Append(@, rv)]
  IN IF rv > 0 THEN [r1 EXCEPT !.pc = "done", !.freed = TRUE]
     ELSE IF counter = 0 THEN [r1 EXCEPT !.killed = TRUE, !.pc = "done", !.freed = TRUE]
     ELSE [r1 EXCEPT !.pc = "sleep"]

NannyRound ==
  /\ reaper.pc = "loop"
  /\ \E rv \in NannyWaitOutcomes(reaper.pid) :
       reaper' = IF reaper.counter = 0
                   THEN [reaper EXCEPT !.pc = "done", !.freed = TRUE]
                   ELSE nanny_round(reaper, rv)
  /\ UNCHANGED <<host, addr, proc, vc, net, cli>>

\* sleep(1)
NannySleep ==
  /\ reaper.pc = "sleep"
  /\ reaper' = [reaper EXCEPT !.slept = @ + 1, !.pc = "loop"]
  /\ UNCHANGED <<host, addr, proc, vc, net, cli>>

InitNanny == InitWorld /\ HostOnly

NextNanny == NannyStart \/ NannyRound \/ NannySleep

\* the thread is detached and scheduled by the operating system; its waitpid
\* is non-blocking and its sleep returns
SpecNanny == InitNanny /\ [][NextNanny]_vars /\ WF_vars(NextNanny)

Last(s) == s[Len(s)]

\* the claim as stated, for its last clause: a worker that made its 10th
\* waitpid call has sent KILL, whatever that call returned
C15_KillOnLastUnconditionally ==
  (reaper.pc = "done" /\ reaper.arg = "pid" /\ Len(reaper.rvs) = NANNY_TRIES)
    => reaper.killed

C15_Bounded ==
  reaper.pc \in {"loop", "sleep", "done"} /\ reaper.arg = "pid" =>
    LET calls == Len(reaper.rvs)
    IN /\ calls <= 10
       /\ reaper.slept = (IF reaper.pc = "loop" \/ calls = 0 THEN calls ELSE calls - 1)
       /\ \A i \in 1..(calls - 1) : reaper.rvs[i] <= 0
       /\ reaper.killed => reaper.pc = "done"
       /\ reaper.pc = "done" =>
            \/ Last(reaper.rvs) > 0 /\ ~reaper.killed
            \/ calls = 10 /\ Last(reaper.rvs) <= 0 /\ reaper.killed

\* C15 (amended): the reaper worker started for a pid terminates: it makes at
\* most 10 non-blocking waitpid calls with a 1-second sleep between two calls,
\* makes no call after one that reported the child reaped, and sends KILL
\* exactly when the 10th call, too, did not report the child reaped.
C15_Reaper ==
  /\ []C15_Bounded
  /\ (reaper.pc = "loop") ~> (reaper.pc = "done")

\* the 10th call reaps the child: the worker ends without a signal
C15_Witness ==
  /\ reaper.pc = "done" /\ reaper.arg = "pid"
  /\ Len(reaper.rvs) = 10
  /\ Last(reaper.rvs) = reaper.pid
  /\ reaper.slept = 9
  /\ ~reaper.killed

-----------------------------------------------------------------------------
(* Claim about the failure paths of the allocator *)

\* the allocation made for PR p failed: listen_external gave the record up
AllocationFailed(p) == pr[p].origin = "listen" /\ pr[p].mem = "leaked"

\* C16: after a failed allocation nothing it acquired is left: the shared
\* memory object and the three semaphores are unlinked, the listener socket
\* is closed and no path is bound to it.
C16_FailedAllocationReleases ==
  \A p \in PRIds :
    AllocationFailed(p) =>
      /\ pr[p].shmobj = "unlinked"
      /\ pr[p].sems = "unlinked"
      /\ fds[LSock(p)] # "listening"
      /\ \A path \in Paths : ns[path] # LSock(p)

-----------------------------------------------------------------------------
(* arcan-net (a12/net/net.c): the outbound retry loop, the forward-local   *)
(* and inherited-socket drivers, the listener, and the forked children.    *)
(* The producer cl is "null" (outbound client form), "live", "dead" (its   *)
(* poll reports CLIENT_DEAD) or "freed"; anet is the state field of the    *)
(* connection find_connection returns: "uninit" (the local was never       *)
(* assigned), "null", "session", "garbage" (an indeterminate value read as *)
(* non-NULL) or "freed".  dispatched holds the arguments of the call of     *)
(* dispatch made for the current producer, forked what the last fork() of  *)
(* the parent returned.  In the listening modes listener is the handler    *)
(* anet_listen runs with, started the handlers it was ever started with;   *)
(* authentic, auth and spawns describe the last remote connection: whether *)
(* it is one that passes authentication, what anet_authenticate said of it *)
(* ("unchecked" when it was not called), and the calls made of             *)
(* shmifsrv_spawn_client for it.                                           *)

EXIT_SUCCESS == 0
EXIT_FAILURE == 1
TIMESLEEP_START == 1
TIMESLEEP_CAP == 10
DEFAULT_RETRY == 0 - 1

MaxRetry == 3
MaxAttempts == 12

\* -r n, or the default
Retries == {DEFAULT_RETRY} \cup (0..MaxRetry)

NetModes == {"client", "srv", "inherit", "listen", "exec"}
MtModes == {"MT_SINGLE", "MT_FORK"}

\* find_connection up to its loop: rc = opts->retry_count, timesleep = 1
find_connection_entry(s, cl) ==
  [s EXCEPT !.pc = "find", !.cl = cl, !.rc = s.retry_count,
            !.timesleep = TIMESLEEP_START, !.attempts = 0, !.sleeps = << >>,
            !.anet = "uninit", !.conn = "none", !.dispatched = {},
            !.forked = "no", !.connected = FALSE]

\* if (timesleep < 10) timesleep++
timesleep_next(t) == IF t < TIMESLEEP_CAP THEN t + 1 ELSE t

retry_dec_never(rc) == rc

\* if (rc > 0) rc--
retry_dec(rc) == IF rc > 0 THEN rc - 1 ELSE rc

\* the loop test and one iteration of find_connection. dead: shmifsrv_poll
\* reports CLIENT_DEAD; connects: anet_cl_setup returns a session
find_connection_iter(s, dead, connects) ==
  IF s.rc = 0 THEN [s EXCEPT !.pc = "found"]
  ELSE IF s.cl # "null" /\ dead THEN [s EXCEPT !.pc = "found", !.cl = "dead"]
  ELSE IF connects
    THEN [s EXCEPT !.attempts = @ + 1, !.anet = "session", !.conn = "open",
                   !.connected = TRUE, !.pc = "found"]
    ELSE [s EXCEPT !.attempts = @ + 1, !.anet = "null",
                   !.timesleep = timesleep_next(@),
                   !.rc = retry_dec(@),
                   !.pc = "sleep"]

\* what a read of anet.state gives
AnetReads(anet) == IF anet = "uninit" THEN {"null", "garbage"} ELSE {anet}

\* what shmifsrv_poll can report for the producer
PollDead(cl) == IF cl = "live" THEN BOOLEAN ELSE {cl = "dead"}

\* forward_shmifsrv_cl after find_connection returned; state: the value read
\* from anet.state
forward_shmifsrv_cl(s, state, dead) ==
  LET s0 == [s EXCEPT !.anet = state] IN
  IF state = "null" THEN [s0 EXCEPT !.cl = "freed"]
  ELSE IF dead
    THEN [s0 EXCEPT !.cl = "freed", !.anet = "freed",
                    !.conn = IF @ = "open" THEN "closed" ELSE @]
    ELSE s0

\* how a bridge (a12helper_a12srv_shmifcl, a12helper_a12cl_shmifsrv) ends:
\* with an error result (rc < 0) or without
BridgeResults == {"error", "ok"}

\* the forked children, by direction: running the bridge, or exited
Child(dir, bridge, exit) == [dir |-> dir, bridge |-> bridge, exit |-> exit]
Running(dir) == Child(dir, "running", EXIT_SUCCESS)

\* a12cl_dispatch: the bridge runs in this process
a12cl_dispatch(s) == s

\* fork_a12cl_dispatch in the parent; forked: fork() did not return -1
fork_a12cl_dispatch(s, forked) ==
  IF forked
    THEN [s EXCEPT !.children = @ \cup {Running("forward")},
                   !.forked = "yes",
                   !.cl = "freed",
                   !.conn = "closed"]
    ELSE [s EXCEPT !.forked = "failed", !.cl = "freed"]

\* dispatch(args, anet.state, cl, anet.fd) as the caller makes it
dispatch(s, forked) ==
  LET s0 == [s EXCEPT !.dispatched = {[cl |-> s.cl, session |-> s.anet]}]
  IN IF s.mode = "srv" /\ s.mt = "MT_FORK" THEN fork_a12cl_dispatch(s0, forked)
     ELSE a12cl_dispatch(s0)

\* fork_a12srv in the parent
fork_a12srv(s, forked) ==
  IF forked
    THEN [s EXCEPT !.children = @ \cup {Running("listen")}, !.forked = "yes",
                   !.conn = "closed"]
    ELSE [s EXCEPT !.forked = "failed", !.conn = "closed"]

\* handover_setup; authenticated: anet_authenticate succeeds, spawned:
\* shmifsrv_spawn_client returns a client.  The result is in .ho
handover_setup(s, authenticated, spawned) ==
  IF s.mode # "exec" THEN [ho |-> TRUE, s |-> s]
  ELSE IF ~authenticated
    THEN [ho |-> FALSE, s |-> [s EXCEPT !.auth = "failed", !.conn = "closed"]]
  ELSE IF ~spawned
    THEN [ho |-> FALSE, s |-> [s EXCEPT !.auth = "passed", !.spawns = @ + 1,
                                        !.conn = "shutdown"]]
    ELSE [ho |-> TRUE, s |-> [s EXCEPT !.auth = "passed", !.spawns = @ + 1,
                                       !.cl = "live"]]

\* single_a12srv: the handover, then the bridge in this process
single_a12srv(s, authenticated, spawned) ==
  LET h == handover_setup([s EXCEPT !.cl = "null"], authenticated, spawned)
  IN IF ~h.ho THEN h.s
     ELSE IF h.s.cl # "null" THEN [h.s EXCEPT !.cl = "freed"]
     ELSE [h.s EXCEPT !.conn = "closed"]

\* return from main
Exit(s, code) == [s EXCEPT !.pc = "exit", !.exit = code]

\* the switch of main on mt_mode: the handler anet_listen is given first
handler(mt) == IF mt = "MT_SINGLE" THEN "single" ELSE "fork"

\* anet_listen(&anet, &errmsg, handler, &meta) starts
anet_listen(s, h) ==
  [s EXCEPT !.pc = "listen", !.listener = h, !.started = @ \cup {h}]

\* anet_listen returned: case MT_SINGLE has no break and runs into case
\* MT_FORK; after that, return EXIT_FAILURE
listen_returned(s) ==
  IF s.listener = "single" THEN anet_listen(s, "fork")
  ELSE Exit(s, EXIT_FAILURE)

\* the exit status of a forked child whose bridge returned: fork_a12srv's
\* child exits by the result, fork_a12cl_dispatch's child with EXIT_SUCCESS
child_exit(dir, bridge) ==
  IF dir = "listen"
    THEN (IF bridge = "error" THEN EXIT_FAILURE ELSE EXIT_SUCCESS)
    ELSE EXIT_SUCCESS

NetFresh ==
  [pc |-> "start", mode |-> "client", mt |-> "MT_FORK",
   retry_count |-> DEFAULT_RETRY, rc |-> 0, timesleep |-> 0, attempts |-> 0,
   sleeps |-> << >>, anet |-> "uninit", cl |-> "null", conn |-> "none",
   dispatched |-> {}, forked |-> "no", children |-> {}, exit |-> EXIT_SUCCESS,
   listener |-> "none", started |-> {}, authentic |-> FALSE, auth |-> "none",
   spawns |-> 0,
   connected |-> FALSE]      \* ghost: an attempt of the last find_connection succeeded

\* main: the command line gives the mode, -t the policy, -r the retry count
NetMain ==
  /\ net.pc = "none"
  /\ \E m \in NetModes, t \in MtModes, r \in Retries, inherited \in BOOLEAN :
       /\ (m \in {"client", "inherit"}) => t = "MT_FORK"
       /\ (m # "inherit") => inherited
       /\ (m \in {"listen", "exec"}) => r = DEFAULT_RETRY
       /\ LET s == [NetFresh EXCEPT !.mode = m, !.mt = t, !.retry_count = r]
          IN net' = CASE m = "client" -> find_connection_entry(s, "null")
                      [] m = "srv" -> [s EXCEPT !.pc = "accept"]
                      [] m = "inherit" ->
                           IF inherited THEN find_connection_entry(s, "live")
                                        ELSE Exit(s, EXIT_FAILURE)
                      [] m \in {"listen", "exec"} -> anet_listen(s, handler(t))
  /\ UNCHANGED <<host, addr, proc, vc, reaper, cli>>

\* a12_connect up to forward_shmifsrv_cl: the connection point, the wait for
\* a producer, its accept
NetAccept ==
  /\ net.pc = "accept"
  /\ \E got \in {"noconnpoint", "pollerror", "producer"} :
       net' = IF got = "producer" THEN find_connection_entry(net, "live")
                                  ELSE Exit(net, EXIT_FAILURE)
  /\ UNCHANGED <<host, addr, proc, vc, reaper, cli>>

NetFind ==
  /\ net.pc = "find"
  /\ net.attempts < MaxAttempts
  /\ \E dead \in PollDead(net.cl), connects \in BOOLEAN :
       net' = find_connection_iter(net, dead, connects)
  /\ UNCHANGED <<host, addr, proc, vc, reaper, cli>>

\* sleep(timesleep); continue
NetSleep ==
  /\ net.pc = "sleep"
  /\ net' = [net EXCEPT !.sleeps = Append(@, net.timesleep), !.pc = "find"]
  /\ UNCHANGED <<host, addr, proc, vc, reaper, cli>>

\* a12_connect and a12_preauth from forward_shmifsrv_cl's test to the return
\* of dispatch
NetForward ==
  /\ net.pc = "found"
  /\ net.mode \in {"srv", "inherit"}
  /\ \E state \in AnetReads(net.anet), dead \in PollDead(net.cl), forked \in BOOLEAN :
       LET s == dispatch(forward_shmifsrv_cl(net, state, dead), forked)
       IN net' = IF net.mode = "srv" THEN [s EXCEPT !.pc = "accept"]
                                     ELSE Exit(s, EXIT_SUCCESS)
  /\ UNCHANGED <<host, addr, proc, vc, reaper, cli>>

\* main, the outbound client form, after find_connection
NetClient ==
  /\ net.pc = "found"
  /\ net.mode = "client"
  /\ \E state \in AnetReads(net.anet), bridge \in BridgeResults :
       net' = IF state = "null"
                THEN Exit([net EXCEPT !.anet = state], EXIT_FAILURE)
                ELSE Exit([net EXCEPT !.anet = state,
                                      !.conn = IF @ = "open" THEN "closed" ELSE @],
                          IF bridge = "error" THEN EXIT_FAILURE ELSE EXIT_SUCCESS)
  /\ UNCHANGED <<host, addr, proc, vc, reaper, cli>>

\* anet_listen hands a connection to fork_a12srv (MT_FORK) or to
\* single_a12srv, which runs the bridge and closes the connection
NetListen ==
  /\ net.pc = "listen"
  /\ \E forked \in BOOLEAN, authentic \in BOOLEAN, spawned \in BOOLEAN :
       LET s == [net EXCEPT !.conn = "open", !.authentic = authentic,
                            !.auth = "unchecked", !.spawns = 0, !.forked = "no"]
       IN net' = IF net.listener = "fork" THEN fork_a12srv(s, forked)
                 ELSE single_a12srv(s, authentic, spawned)
  /\ UNCHANGED <<host, addr, proc, vc, reaper, cli>>

\* anet_listen returns to main
NetListenReturns ==
  /\ net.pc = "listen"
  /\ net' = listen_returned(net)
  /\ UNCHANGED <<host, addr, proc, vc, reaper, cli>>

\* a forked child: the bridge returns and the child exits
NetChild ==
  /\ net.pc # "none"
  /\ \E c \in net.children, bridge \in BridgeResults :
       /\ c.bridge = "running"
       /\ net' = [net EXCEPT !.children =
                    (@ \ {c}) \cup {Child(c.dir, bridge, child_exit(c.dir, bridge))}]
  /\ UNCHANGED <<host, addr, proc, vc, reaper, cli>>

InitNet == InitWorld /\ HostOnly

NextNet ==
  \/ NetMain
  \/ NetAccept
  \/ NetFind
  \/ NetSleep
  \/ NetForward
  \/ NetClient
  \/ NetListen
  \/ NetListenReturns
  \/ NetChild

\* the process runs: a step that can be taken is taken
SpecNet == InitNet /\ [][NextNet]_vars /\ WF_vars(NextNet)

-----------------------------------------------------------------------------
(* Claims about arcan-net *)

Min(a, b) == IF a < b THEN a ELSE b

InRetryLoop == net.pc \in {"find", "sleep", "found"}

\* C17: in the outbound retry loop the k-th backoff sleep lasts min(k, 10)
\* seconds: 1, 2, ... never decreasing and never above 10.
C17_Backoff ==
  InRetryLoop =>
    \A k \in 1..Len(net.sleeps) : net.sleeps[k] = Min(k, 10)

\* no attempt gave a session
AllRefused == net.anet # "session"

C18_Bounded ==
  InRetryLoop =>
    /\ net.retry_count >= 1 => net.attempts <= net.retry_count
    /\ (net.pc = "found" /\ net.retry_count >= 1 /\ AllRefused /\ net.cl # "dead") =>
         (net.attempts = net.retry_count /\ net.anet = "null")
    /\ (net.pc = "found" /\ net.retry_count < 0) =>
         (net.anet = "session" \/ net.cl = "dead")

C18_ClientExit ==
  (net.pc = "exit" /\ net.mode = "client" /\ net.retry_count >= 1 /\ AllRefused) =>
    /\ net.attempts = net.retry_count
    /\ net.anet = "null"
    /\ net.exit # 0

\* a poll that finds the producer dead ends the loop with no further attempt
C18_DeadStep ==
  (net.pc = "find" /\ net'.cl = "dead") =>
    (net'.pc = "found" /\ net'.attempts = net.attempts /\ net'.sleeps = net.sleeps)

\* C18: with a retry count n >= 1 and every attempt failing the retry loop
\* ends after exactly n attempts with no session, and the outbound client form
\* then exits non-zero; the loop ends when the producer is found dead; with
\* the default negative count it returns only with a session or a dead
\* producer.
C18_RetryTerminates ==
  /\ [](C18_Bounded /\ C18_ClientExit)
  /\ [][C18_DeadStep]_vars
  /\ (net.pc = "find" /\ net.retry_count >= 1) ~> (net.pc \notin {"find", "sleep"})

\* --retry 2 against a peer that always refuses, outbound client form
C18_Witness ==
  /\ net.pc = "exit" /\ net.mode = "client"
  /\ net.retry_count = 2 /\ net.attempts = 2 /\ Len(net.sleeps) = 2
  /\ net.anet = "null"
  /\ net.exit = EXIT_FAILURE

\* C19: in forward-local and inherited-socket mode dispatch is called only
\* with a producer that has not been freed and a session that was
\* established: after a failed connect, an exhausted retry count or a producer
\* that died during connect there is no call.
C19_DispatchEstablished ==
  (net.pc # "none" /\ net.mode \in {"srv", "inherit"}) =>
    \A d \in net.dispatched : d.cl = "live" /\ d.session = "session"

\* C20: under the FORK policy a forked child, of the listener and of
\* forward-local alike, exits with failure when its bridge returned an error
\* and with success otherwise; the parent that forked has closed its copy of
\* the connection and is back at accepting.
C20_ForkPolicy ==
  (net.pc # "none" /\ net.mt = "MT_FORK") =>
    /\ \A c \in net.children :
         c.bridge # "running" => (c.exit = EXIT_FAILURE <=> c.bridge = "error")
    /\ (net.forked = "yes" /\ net.pc \in {"accept", "listen"}) => net.conn = "closed"

ListenModes == {"listen", "exec"}

\* C21: SINGLE and FORK are disjoint: a process started in listen or
\* exec-on-connect mode with the single-connection option never starts a
\* listener with the fork-per-connection handler and never hands a connection
\* to a forked child.
C21_PoliciesDisjoint ==
  (net.pc # "none" /\ net.mode \in ListenModes /\ net.mt = "MT_SINGLE") =>
    /\ "fork" \notin net.started
    /\ net.children = {}

\* C22: in exec-on-connect mode, under either policy, shmifsrv_spawn_client
\* is called for a remote connection exactly when the connection passes
\* authentication, once; a connection that fails it is closed.
C22_SpawnIffAuthenticated ==
  (net.pc # "none" /\ net.mode = "exec" /\ net.auth # "none") =>
    /\ net.spawns = (IF net.authentic THEN 1 ELSE 0)
    /\ ~net.authentic => net.conn = "closed"

-----------------------------------------------------------------------------
(* arcan-net: the command line.  An argument is a string; a list of trace  *)
(* group names is the sequence of the tokens strtok cuts it into.          *)

\* static const char* trace_groups[]
trace_groups ==
  <<"video", "audio", "system", "event", "missing", "alloc", "crypto",
    "vdetail", "btransfer">>

\* the trace groups as show_usage documents them, bit 0 first
TraceGroupsDocumented ==
  <<"video", "audio", "system", "event", "transfer", "debug", "missing",
    "alloc", "crypto", "vdetail", "btransfer">>

Range(f) == {f[k] : k \in DOMAIN f}

\* what a token of a -d list can be: a documented name, in another case, or
\* no name at all
TraceTokens == Range(TraceGroupsDocumented) \cup {"VIDEO", "Missing", "bogus"}

tolower(t) ==
  CASE t = "VIDEO" -> "video"
    [] t = "Missing" -> "missing"
    [] OTHER -> t

strcasecmp_eq(a, b) == tolower(a) = tolower(b)

RECURSIVE pow2(_)
pow2(k) == IF k = 0 THEN 1 ELSE 2 * pow2(k - 1)

bit(v, k) == (v \div pow2(k)) % 2

\* v | (1 << k)
or_bit(v, k) == IF bit(v, k) = 1 THEN v ELSE v + pow2(k)

\* the inner loop of tracestr_to_bitmap: the indices i (from 0) with
\* strcasecmp(trace_groups[i], pt) == 0; the loop breaks at the first
trace_match(pt) ==
  {k - 1 : k \in {j \in DOMAIN trace_groups : strcasecmp_eq(trace_groups[j], pt)}}

RECURSIVE tracestr_to_bitmap_from(_, _, _)
tracestr_to_bitmap_from(toks, k, res) ==
  IF k > Len(toks) THEN res
  ELSE LET m == trace_match(toks[k])
       IN tracestr_to_bitmap_from(toks, k + 1,
            IF m = {} THEN res
            ELSE or_bit(res, CHOOSE i \in m : \A j \in m : i <= j))

tracestr_to_bitmap(toks) == tracestr_to_bitmap_from(toks, 1, 0)

MaxNames == 2

RECURSIVE SeqsUpTo(_, _)
SeqsUpTo(S, n) ==
  IF n = 0 THEN {<< >>}
  ELSE LET shorter == SeqsUpTo(S, n - 1)
       IN shorter \cup {Append(q, e) : q \in {r \in shorter : Len(r) = n - 1}, e \in S}

TraceLists == SeqsUpTo(TraceTokens, MaxNames)

\* -d list: val = tracestr_to_bitmap(workstr)
CliTrace ==
  /\ cli.pc = "none"
  /\ \E toks \in TraceLists :
       cli' = [pc |-> "trace", toks |-> toks, val |-> tracestr_to_bitmap(toks)]
  /\ UNCHANGED <<host, addr, proc, vc, reaper, net>>

\* argv[1..argc-1] is the sequence a; argv[argc] is the null pointer
NULLARG == "(null)"
argc(a) == Len(a) + 1
Arg(a, k) == IF k < argc(a) THEN a[k] ELSE NULLARG

DashArgs == {"-l", "-s", "-S", "-exec", "-t", "-X", "-r", "--retry", "-d", "-h", "--help"}
DigitArgs == {"6680", "0", "2", "3"}
AlnumArgs == DigitArgs \cup {"host", "demo", "tag", "keystore"}

\* strtol / strtoul of an argument
strtol(t) ==
  CASE t = "6680" -> 6680
    [] t = "2" -> 2
    [] t = "3" -> 3
    [] OTHER -> 0

\* the options as main initialises them, and the locals of apply_commandline:
\* ret is its return value once it has returned, read the highest index of
\* argv it read, fault that it passed the null pointer to a string function
ParseStart ==
  [i |-> 1, mode |-> "none", mt |-> "MT_FORK", retry_count |-> DEFAULT_RETRY,
   cp |-> NULLARG, host |-> NULLARG, port |-> NULLARG, bin |-> NULLARG,
   key |-> NULLARG, redirect_exit |-> TRUE, trace |-> 0, sockfd |-> 0,
   returned |-> FALSE, ret |-> 0, err |-> "none", read |-> 0, fault |-> FALSE]

\* return show_usage(msg): false, that is 0
show_usage(o, msg) == [o EXCEPT !.returned = TRUE, !.ret = 0, !.err = msg]

\* return i
return_i(o, i) == [o EXCEPT !.returned = TRUE, !.ret = i, !.i = i]

\* argv[k] is read
Read(o, k) == [o EXCEPT !.read = IF k > @ THEN k ELSE @]

\* a string function is given argv[k]
Deref(a, o, k) ==
  IF k >= argc(a) THEN [Read(o, k) EXCEPT !.fault = TRUE, !.returned = TRUE]
  ELSE Read(o, k)

modeerr == "Mixed or multiple -s or -l arguments"

opt_d(a, o) ==
  IF o.i = argc(a) - 1 THEN show_usage(o, "-d without trace value argument")
  ELSE LET w == a[o.i + 1]
       IN [Read(o, o.i + 1) EXCEPT
             !.i = o.i + 1,
             !.trace = IF w \in DigitArgs THEN strtol(w) ELSE tracestr_to_bitmap(<<w>>)]

opt_s(a, o) ==
  IF o.mode # "none" THEN show_usage(o, modeerr)
  ELSE LET o1 == [o EXCEPT !.mode = "ANET_SHMIF_SRV"]
           i1 == o.i + 1
           i2 == o.i + 2
           i3 == o.i + 3
       IN IF o.i >= argc(a) - 1
            THEN show_usage(o1, "Invalid arguments, -s without room for ip")
          ELSE IF a[i1] \notin AlnumArgs
            THEN show_usage([Read(o1, i1) EXCEPT !.cp = a[i1]],
                            "Invalid character in connpoint [a-Z,0-9]")
          ELSE LET o2 == [Read(o1, i2) EXCEPT !.cp = a[i1], !.host = Arg(a, i2)]
               IN IF i2 = argc(a) THEN show_usage(o2, "-s without room for port")
                  ELSE LET o3 == [Read(o2, i3) EXCEPT !.port = Arg(a, i3)]
                       IN IF i3 # argc(a) - 1
                            THEN show_usage(o3, "Trailing arguments to -s connpoint host port")
                            ELSE [o3 EXCEPT !.i = i3]

\* fst: what fstat says of the descriptor
opt_S(a, o, fst) ==
  IF o.mode # "none" THEN show_usage(o, modeerr)
  ELSE LET o1 == [o EXCEPT !.mode = "ANET_SHMIF_SRV_INHERIT"]
           i1 == o.i + 1
           i2 == o.i + 2
           i3 == o.i + 3
       IN IF o.i >= argc(a) - 1
            THEN show_usage(o1, "Invalid arguments, -S without room for ip")
          ELSE LET o2 == [Read(o1, i1) EXCEPT !.sockfd = strtol(a[i1])]
               IN IF fst = "nostat" THEN show_usage(o2, "Couldn't stat -S descriptor")
                  ELSE IF fst = "notsock"
                    THEN show_usage(o2, "-S descriptor does not point to a socket")
                  ELSE LET o3 == [Read(o2, i2) EXCEPT !.host = Arg(a, i2)]
                       IN IF i2 = argc(a) THEN show_usage(o3, "-S without room for port")
                          ELSE LET o4 == [Read(o3, i3) EXCEPT !.port = Arg(a, i3)]
                               IN IF i3 # argc(a) - 1
                                    THEN show_usage(o4, "Trailing arguments to -S fd_in host port")
                                    ELSE [o4 EXCEPT !.i = i3]

\* -l from the test for -exec on; i is the index that is compared with "-exec"
opt_l_exec(a, o, i) ==
  LET o1 == Deref(a, o, i)
  IN IF o1.fault THEN o1
     ELSE IF a[i] # "-exec"
       THEN show_usage(o1, "Unexpected trailing argument, expected -exec or end")
     ELSE IF i = argc(a) - 1 THEN show_usage(o1, "-exec without bin arg0 .. argn")
     ELSE return_i([Read(o1, i + 1) EXCEPT !.bin = a[i + 1], !.mode = "ANET_SHMIF_EXEC"],
                   i + 1)

opt_l(a, o) ==
  IF o.mode # "none" THEN show_usage(o, modeerr)
  ELSE LET o1 == [o EXCEPT !.mode = "ANET_SHMIF_CL"]
           i1 == o.i + 1
           i2 == o.i + 2
       IN IF o.i = argc(a) - 1 THEN show_usage(o1, "-l without room for port argument")
          ELSE LET o2 == [Read(o1, i1) EXCEPT !.port = a[i1]]
               IN IF a[i1] \notin DigitArgs
                    THEN show_usage(o2, "Invalid values in port argument")
                  ELSE IF i1 = argc(a) - 1 THEN return_i(o2, i1)
                  ELSE IF a[i2] # "-exec"
                    THEN LET o3 == [Read(o2, i2) EXCEPT !.host = a[i2]]
                         IN IF i2 + 1 = argc(a) - 1 THEN return_i(o3, i2 + 1)
                            ELSE opt_l_exec(a, o3, i2 + 1)
                    ELSE opt_l_exec(a, Read(o2, i2), i2)

opt_r(a, o) ==
  IF 1 < argc(a) - 1
    THEN LET o1 == Deref(a, o, o.i + 1)
         IN IF o1.fault THEN o1
            ELSE [o1 EXCEPT !.i = o.i + 1, !.retry_count = strtol(a[o.i + 1])]
    ELSE show_usage(o, "Missing count argument to -r,--retry")

\* one round of the for loop of apply_commandline, up to its i++
apply_option(a, o, fst) ==
  LET t == a[o.i]
  IN CASE t = "-d" -> opt_d(a, o)
       [] t = "-s" -> opt_s(a, o)
       [] t = "-S" -> opt_S(a, o, fst)
       [] t = "-l" -> opt_l(a, o)
       [] t = "-t" -> [o EXCEPT !.mt = "MT_SINGLE"]
       [] t = "-X" -> [o EXCEPT !.redirect_exit = FALSE]
       [] t \in {"-r", "--retry"} -> opt_r(a, o)
       [] OTHER -> o

RECURSIVE apply_commandline_from(_, _, _)
apply_commandline_from(a, o, fst) ==
  IF o.returned THEN o
  ELSE IF ~(o.i < argc(a)) THEN return_i(o, o.i)
  ELSE IF a[o.i] \notin DashArgs THEN return_i(Read(o, o.i), o.i)
  ELSE LET o1 == apply_option(a, Read(o, o.i), fst)
       IN apply_commandline_from(a, IF o1.returned THEN o1 ELSE [o1 EXCEPT !.i = @ + 1], fst)

apply_commandline(a, fst) == apply_commandline_from(a, ParseStart, fst)

\* a result of main: it returned code, or it went on to run in a mode, or
\* the process took a fault
MainExit(code, why, o) == [outcome |-> "exit", code |-> code, why |-> why, o |-> o]
MainRuns(mode, o) == [outcome |-> "run", code |-> 0, why |-> mode, o |-> o]
MainFault(o) == [outcome |-> "fault", code |-> 0, why |-> "fault", o |-> o]

\* return show_usage(msg) from main or from apply_keystore_command: main
\* returns the bool as its int
usage_exit(msg, o) == MainExit(0, msg, [o EXCEPT !.err = msg])

\* apply_keystore_command(argc - 2, argv + 2); k: the arguments after
\* "keystore"; env.statepath: ARCAN_STATEPATH is "ok", "unset" or cannot be
\* opened; env.ksopen: a12helper_keystore_open succeeds
apply_keystore_command(k, env) ==
  LET o == ParseStart
  IN IF Len(k) = 0 THEN usage_exit("Missing keystore command arguments", o)
     ELSE IF env.statepath = "unset"
       THEN usage_exit("Missing basedir with keystore (set ARCAN_STATEPATH)", o)
     ELSE IF env.statepath = "noopen"
       THEN usage_exit("Error opening basedir, check permissions and type", o)
     ELSE IF ~env.ksopen THEN usage_exit("Couldn't open keystore from basedir", o)
     ELSE IF Len(k) < 2 THEN usage_exit("Missing tag / host arguments", o)
     ELSE IF Len(k) > 2 /\ (strtol(k[3]) = 0 \/ strtol(k[3]) > 65535)
       THEN usage_exit("Port argument is invalid or out of range", o)
     ELSE MainExit(EXIT_SUCCESS, "keystore", o)

\* main up to the point where it runs in a mode
main(a, env) ==
  IF argc(a) > 1 /\ a[1] = "keystore" THEN apply_keystore_command(SubSeq(a, 2, Len(a)), env)
  ELSE IF argc(a) < 2 \/ (argc(a) = 2 /\ a[1] \in {"-h", "--help"})
    THEN MainExit(0, "usage", ParseStart)
  ELSE LET o == apply_commandline(a, env.fst)
       IN IF o.fault THEN MainFault(o)
          ELSE IF o.ret = 0 THEN MainExit(EXIT_FAILURE, o.err, o)
          ELSE IF o.mode = "none"
            THEN IF o.ret <= argc(a) - 1
                   THEN MainRuns("client", o)
                   ELSE usage_exit("No mode specified, please use -s or -l form", o)
          ELSE MainRuns(o.mode, o)

MaxArgs == 3

\* the arguments the vectors of up to MaxArgs arguments are made of
ArgTokens == {"-l", "-s", "-exec", "-t", "-r", "-d", "-h", "6680", "host", "tag@", "keystore"}

\* the listen forms of the usage text, and the two with -exec and no binary
ListenForms ==
  { <<"-l", "6680">>,
    <<"-l", "6680", "host">>,
    <<"-l", "6680", "-exec", "bin">>,
    <<"-l", "6680", "-exec", "bin", "arg1">>,
    <<"-l", "6680", "host", "-exec", "bin">>,
    <<"-l", "6680", "host", "-exec", "bin", "arg1">> }

ListenFormsNoBinary ==
  { <<"-l", "6680", "-exec">>,
    <<"-l", "6680", "host", "-exec">> }

\* the other forms of the usage text, with and without their last arguments
OtherForms ==
  { <<"-s", "demo", "host", "6680">>,
    <<"-t", "-s", "demo", "host", "6680">>,
    <<"-s", "demo", "host", "6680", "host">>,
    <<"-S", "3", "host", "6680">>,
    <<"-S", "3", "host">>,
    <<"-X", "-r", "2", "-s", "demo", "host", "6680">>,
    <<"keystore", "tag", "host", "6680">>,
    <<"keystore", "tag", "host", "0">> }

ArgVectors ==
  SeqsUpTo(ArgTokens, MaxArgs) \cup ListenForms \cup ListenFormsNoBinary \cup OtherForms

EnvAny == [fst |-> "sock", statepath |-> "ok", ksopen |-> TRUE]

\* the environment is enumerated where main reads it
Envs(a) ==
  IF Len(a) > 0 /\ a[1] = "keystore"
    THEN {[EnvAny EXCEPT !.statepath = p, !.ksopen = k] :
            p \in {"ok", "unset", "noopen"}, k \in BOOLEAN}
  ELSE IF "-S" \in Range(a)
    THEN {[EnvAny EXCEPT !.fst = f] : f \in {"sock", "nostat", "notsock"}}
  ELSE {EnvAny}

CliMain ==
  /\ cli.pc = "none"
  /\ \E a \in ArgVectors : \E env \in Envs(a) :
       cli' = [pc |-> "main", argv |-> a, env |-> env, res |-> main(a, env)]
  /\ UNCHANGED <<host, addr, proc, vc, reaper, net>>

InitCli == InitWorld /\ HostOnly

NextCli == CliTrace \/ CliMain

SpecCli == InitCli /\ [][NextCli]_vars

-----------------------------------------------------------------------------
(* Claims about the command line *)

HelpAsked(a) == a \in {<<"-h">>, <<"--help">>}

\* C23: a run that ends because of an argument error exits with a non-zero
\* code; exit code 0 is returned only after a completed keystore command (or
\* a clean session end, which main reaches only past the command line; the
\* usage text asked for with -h is left aside).
C23_ArgumentErrorsFail ==
  (cli.pc = "main" /\ cli.res.outcome = "exit" /\ ~HelpAsked(cli.argv)) =>
    /\ cli.res.o.err # "none" => cli.res.code # 0
    /\ cli.res.code = 0 => cli.res.why = "keystore"

\* C24: the bitmap of a list of trace group names has bit p set exactly when
\* the list holds the group documented at position p.
C24_TraceBits ==
  cli.pc = "trace" =>
    \A p \in 0..(Len(TraceGroupsDocumented) - 1) :
      bit(cli.val, p) = 1 <=>
        \E k \in DOMAIN cli.toks : tolower(cli.toks[k]) = TraceGroupsDocumented[p + 1]

\* C25: the parser accepts every documented listen form without reading argv
\* at an index >= argc, sets listen mode (exec-on-connect exactly when -exec
\* and a binary are there) and records the host when there is one; -exec with
\* no binary is an argument error.
C25_ListenForms ==
  cli.pc = "main" =>
    LET a == cli.argv
        r == cli.res
    IN /\ a \in ListenForms =>
            /\ r.outcome = "run"
            /\ r.o.read < argc(a)
            /\ r.o.mode = (IF "-exec" \in Range(a) THEN "ANET_SHMIF_EXEC" ELSE "ANET_SHMIF_CL")
            /\ r.o.host = (IF "host" \in Range(a) THEN "host" ELSE NULLARG)
            /\ "-exec" \in Range(a) => r.o.bin = "bin"
       /\ a \in ListenFormsNoBinary =>
            (r.outcome = "exit" /\ r.o.err # "none" /\ r.code # 0)

-----------------------------------------------------------------------------
(* The write loop of send_key *)

\* the loop of send_key is running, before and after the step
InWriteLoop == pc = "send_key" /\ pc' = "send_key"

\* the handler that ran send_key has returned
SendKeyReturned ==
  /\ pc = "idle"
  /\ \E i \in DOMAIN tick : tick[i] = "send_key"

\* every byte of the line written, the ready feed installed, audio attached
KeySent(p) ==
  /\ pr[p].mem = "live"
  /\ ntw = 0
  /\ Len(wrote[p]) = snprintf_ret(pr[p].key)
  /\ pr[p].feed = "emptyframe"
  /\ pr[p].aid

\* the PR destroyed, the ready feed never installed
KeyFailed(p) ==
  /\ pr[p].mem = "freed"
  /\ pr[p].feed # "emptyframe"
  /\ ~pr[p].sent

\* C26: whatever write() returns (the whole rest, a part, zero bytes, a
\* retryable error, a fatal error), send_key terminates after at most 10
\* retryable failures: every iteration of its loop lowers the bytes left or
\* the retries left, the retries stay in 0..10, and when the handler returns
\* exactly one of two outcomes holds: the whole line written with the ready
\* feed installed and audio attached, or the PR destroyed with the ready feed
\* never installed
C26_SendKeyTerminates ==
  /\ [][InWriteLoop => ntw' + rtc' < ntw + rtc]_vars
  /\ [](pc = "send_key" => rtc \in 0..SEND_RETRIES)
  /\ [](SendKeyReturned => (KeySent(cur) /\ ~KeyFailed(cur)) \/ (KeyFailed(cur) /\ ~KeySent(cur)))

-----------------------------------------------------------------------------
(* The dimensions of a new subsegment *)

\* what reaches the producer in a call of spawn_subsegment: the descriptor,
\* the fd-transfer-announce, the new-segment-announce
Notifications == {"pushhandle", "FDTRANSFER", "NEWSEGMENT"}

\* in the log t every notification comes after the write of the dimensions
DimsFirst(t) ==
  \A k \in 1..Len(t) :
    t[k] \in Notifications => \E i \in 1..(k - 1) : t[i] = "dims"

Notified(t) == \E k \in 1..Len(t) : t[k] \in Notifications

C27_Step ==
  \A new \in PRIds :
    (Created(new) /\ Notified(tick')) =>
      /\ DimsFirst(tick')
      /\ pr'[new].w # 0
      /\ pr'[new].h # 0

\* C27: a call of spawn_subsegment writes the width and the height into the
\* header of the new segment before anything reaches the producer (the
\* descriptor, the fd-transfer-announce, the new-segment-announce), so that a
\* producer that maps the segment when notified never reads a dimension of 0.
C27_DimsBeforeNotify == [][C27_Step]_vars

-----------------------------------------------------------------------------
(* The control header across a remap *)

Remapped == ResizeStep /\ ResizeReturned(TRUE) /\ "mmap" \in {tick'[k] : k \in 1..Len(tick')}

C28_Step ==
  \A p \in PRIds :
    (Remapped /\ pr[p].mem = "live") =>
      /\ pr'[p].hdr = pr[p].hdr
      /\ pr'[p].w = pr[p].w
      /\ pr'[p].h = pr[p].h
      /\ pr'[p].segment_size = pr'[p].rzsz
      /\ pr'[p].segment_size = pr'[p].shmsize

\* C28: a resize that maps the page anew and returns true leaves the version,
\* the parent pid, the cookie, the dead-man flag, the width and the height of
\* the control header as they were before the call, and stores the new size in
\* segment_size.
C28_HeaderPreserved == [][C28_Step]_vars

C28_Witness ==
  /\ InResize /\ Ticked("mmap") /\ Ticked("resize:true")
  /\ \E p \in PRIds :
       /\ pr[p].ptr
       /\ pr[p].hdr = FilledHeader
       /\ pr[p].segment_size = pr[p].rzsz
       /\ pr[p].segment_size # ARCAN_SHMPAGE_START_SZ

-----------------------------------------------------------------------------
(* The socket address of a named listener: the part of shmalloc that       *)
(* validates the key and builds addr.sun_path, applied to every prefix,    *)
(* key and HOME up to the size of sun_path                                 *)

SLASH == 47

\* sizeof(addr.sun_path), which the platform defines
MaxSunPath == 6

\* size_t lim = sizeof(addr.sun_path) / sizeof(addr.sun_path[0]) - 1
sun_path_lim == MaxSunPath - 1

\* ARCAN_SHM_PREFIX, which the build defines: a name in the abstract
\* namespace (it starts with NUL), an absolute path, a path relative to HOME
Prefixes == {<<NUL, 97>>, <<SLASH, 97>>, <<46, 97>>}

\* goto fail: nothing copied into addr.sun_path
addr_rejected == [ok |-> FALSE, sun_path |-> << >>]

\* the bytes copied into addr.sun_path, in order
addr_built(path) == [ok |-> TRUE, sun_path |-> path]

\* if (envlen + optlen + pref_sz > lim)
home_check(envlen, optlen, pref_sz, lim) == envlen + optlen + pref_sz > lim

\* shmalloc from the test of optkey to the last memcpy into addr.sun_path.
\* linux: the build defines __linux; optkey and home are {} for a null
\* pointer, else the set of the one string
shmalloc_addr(linux, prefix, optkey, home) ==
  LET lim == sun_path_lim
      pref_sz == Len(prefix)
  IN IF optkey = {} THEN addr_rejected
     ELSE LET key == CHOOSE k \in optkey : TRUE
              optlen == Len(key)
          IN IF optlen = 0 \/ pref_sz + optlen > lim THEN addr_rejected
             ELSE IF linux /\ prefix[1] = NUL THEN addr_built(prefix \o key)
             ELSE IF prefix[1] # SLASH
               THEN IF home = {} THEN addr_rejected
                    ELSE LET auxp == CHOOSE e \in home : TRUE
                             envlen == Len(auxp)
                         IN IF home_check(envlen, optlen, pref_sz, lim)
                              THEN addr_rejected
                              ELSE addr_built(auxp \o <<SLASH>> \o prefix \o key)
             ELSE addr_built(prefix \o key)

\* the keys and the values of HOME: a null pointer, and the strings of every
\* length up to the size of sun_path
AddrStrings == {{}} \cup {{Filler(n)} : n \in 0..MaxSunPath}

ShmallocAddr ==
  /\ \E linux \in BOOLEAN, prefix \in Prefixes, optkey \in AddrStrings, home \in AddrStrings :
       addr' = [called |-> TRUE, linux |-> linux, prefix |-> prefix,
                optkey |-> optkey, home |-> home,
                res |-> shmalloc_addr(linux, prefix, optkey, home)]
  /\ UNCHANGED <<host, proc, vc, reaper, net, cli>>

InitAddr == InitWorld /\ HostOnly

NextAddr == ShmallocAddr

SpecAddr == InitAddr /\ [][NextAddr]_vars

\* the length of the path the inputs of a call make up: prefix and key, and
\* for a prefix relative to HOME the directory and the separator before them
HomeRelative(a) == ~(a.linux /\ a.prefix[1] = NUL) /\ a.prefix[1] # SLASH
PathLength(a) ==
  LET key == CHOOSE k \in a.optkey : TRUE
      auxp == CHOOSE e \in a.home : TRUE
  IN Len(a.prefix) + Len(key) + (IF HomeRelative(a) THEN Len(auxp) + 1 ELSE 0)
HasPath(a) == a.optkey # {} /\ (HomeRelative(a) => a.home # {})

\* C29: for every key and every HOME the validation accepts, the path built
\* (prefix and key, after HOME and "/" when the prefix is relative to HOME)
\* is at most sizeof(sun_path) - 1 bytes long, so that it fits in sun_path
\* with its terminating NUL; every longer combination is rejected with no
\* byte copied.
C29_PathFits ==
  addr.called =>
    /\ addr.res.ok => Len(addr.res.sun_path) <= sun_path_lim
    /\ (HasPath(addr) /\ PathLength(addr) > sun_path_lim) =>
         addr.res = addr_rejected

-----------------------------------------------------------------------------
(* Several named listeners alive at once, all made with the one key: each  *)
(* is created, polled (and so accepts a connection) and destroyed          *)

InitML == InitWorld /\ HostOnly

NextML ==
  \/ ListenAcceptFirst
  \/ \E p \in PRIds : SocketPollPoll(p)
  \/ \E p \in PRIds : SocketPollDestroy(p)
  \/ SendKeyWrite
  \/ SendKeyEnd

SpecML == InitML /\ [][NextML]_vars

\* a listener from its bind until it accepts a connection or is destroyed
Bound(p) ==
  /\ pr[p].mem = "live"
  /\ pr[p].feed = "socketpoll"
  /\ pr[p].sockaddr # NoPath

C30_OwnPath ==
  \A p \in PRIds : Bound(p) => ns[pr[p].sockaddr] = LSock(p)

C30_OwnUnlink ==
  \A p \in PRIds :
    unlinked'[p] > unlinked[p] => ns[pr[p].lpath] = LSock(p)

\* C30: with several named listeners alive at once, from the bind of one
\* until it accepts a connection or is destroyed its path stays in the
\* namespace and names its own listening socket, whatever is done to another
\* PR (a listener made with the same key, its accept, its destroy); and a PR
\* unlinks a path only while the path names its own socket.
C30_ListenerKeepsPath == []C30_OwnPath /\ [][C30_OwnUnlink]_vars

-----------------------------------------------------------------------------
(* The child of a server PR and those that wait for it: the liveness check *)
(* of the ready feed, killchild, and the reaper worker it starts           *)

\* the child after fork: running, its pid, whether the host ignores SIGCHLD,
\* and the states it was in when a KILL was sent to its pid
proc_forked(pid, ignore) ==
  [state |-> "running", pid |-> pid, ignore |-> ignore, signalled |-> {}]

\* the child ends: it waits to be reaped, or with SIGCHLD ignored it is
\* reaped at once
proc_exit(c) ==
  [c EXCEPT !.state = IF c.ignore THEN "reaped" ELSE "zombie"]

\* what waitpid(pid, &status, WNOHANG) returns: 0 for a running child, the
\* pid for one that ended, -1 (ECHILD) for one reaped before
waitpid_rv(c) ==
  IF c.state = "running" THEN 0
  ELSE IF c.state = "zombie" THEN c.pid
  ELSE 0 - 1

\* and what it does: the child that ended is reaped
waitpid_reap(c) == [c EXCEPT !.state = IF @ = "zombie" THEN "reaped" ELSE @]

\* kill(pid, SIGKILL): a running child ends
proc_kill(c) ==
  LET c1 == [c EXCEPT !.signalled = @ \cup {c.state}]
  IN IF c.state = "running" THEN proc_exit(c1) ELSE c1

\* the worker pthread_create starts in killchild: nanny_thread with the pid
nanny_started(pid) ==
  [pc |-> "loop", arg |-> "pid", pid |-> pid, counter |-> NANNY_TRIES,
   rvs |-> << >>, slept |-> 0, killed |-> FALSE, freed |-> FALSE]

\* what killchild did in the call that made the world x: the worker it
\* started, the KILL it sent itself
Supervise(x, c) ==
  LET new == x.oslog \ oslog
      worker == {e \in new : e.op = "worker"}
      kills == {e \in new : e.op = "kill"}
  IN /\ proc' = (IF kills # {} THEN proc_kill(c) ELSE c)
     /\ reaper' = (IF worker # {}
                     THEN nanny_started((CHOOSE e \in worker : TRUE).pid)
                     ELSE reaper)
     /\ UNCHANGED <<vc, net, cli, addr>>

ReapSpawn ==
  /\ pc = "idle"
  /\ pr[Listener].mem = "none"
  /\ \E in \in SpawnServerIn, ignore \in BOOLEAN :
       /\ CommitHost(arcan_frameserver_spawn_server(NewTick, Listener, in, Pid(Listener)))
       /\ proc' = proc_forked(Pid(Listener), ignore)
       /\ UNCHANGED <<vc, reaper, net, cli, addr>>

ReapChildExit ==
  /\ proc.state = "running"
  /\ proc' = proc_exit(proc)
  /\ UNCHANGED <<host, vc, reaper, net, cli, addr>>

\* the poll of the ready feed: validchild with what waitpid returns for the
\* child, and the destruction of the PR when it is found dead
ReapCheckAlive ==
  /\ pc = "idle"
  /\ pr[Listener].feed = "emptyframe"
  /\ \E t \in (IF arcan_frameserver_validchild(pr[Listener], FALSE, waitpid_rv(proc))
                 THEN {OsAny} ELSE OsFor(pr[Listener])) :
       LET x == emptyframe_poll(NewTick, Listener, FALSE, waitpid_rv(proc), t)
       IN CommitHost(x) /\ Supervise(x, waitpid_reap(proc))

ReapDestroy ==
  /\ pc = "idle"
  /\ pr[Listener].feed = "emptyframe"
  /\ \E t \in OsFor(pr[Listener]) :
       LET x == vobj_deleted(emptyframe_destroy(NewTick, Listener, t), Listener)
       IN CommitHost(x) /\ Supervise(x, proc)

\* one round of the worker, with what waitpid returns for the child
ReapRound ==
  /\ reaper.pc = "loop"
  /\ LET r == IF reaper.counter = 0
                THEN [reaper EXCEPT !.pc = "done", !.freed = TRUE]
                ELSE nanny_round(reaper, waitpid_rv(proc))
         c == IF reaper.counter = 0 THEN proc ELSE waitpid_reap(proc)
     IN /\ reaper' = r
        /\ proc' = (IF r.killed THEN proc_kill(c) ELSE c)
  /\ UNCHANGED <<host, vc, net, cli, addr>>

InitReap == InitWorld /\ HostOnly

NextReap ==
  \/ ReapSpawn
  \/ ReapChildExit
  \/ ReapCheckAlive
  \/ ReapDestroy
  \/ ReapRound
  \/ NannySleep

SpecReap == InitReap /\ [][NextReap]_vars

\* C31: the host never sends KILL to a pid after the pid was reaped: under
\* every interleaving of the liveness check (whose waitpid may reap the
\* child), killchild and the reaper worker (whose waitpid fails when the
\* child was reaped elsewhere or SIGCHLD is ignored), each KILL is sent
\* while the child is not yet reaped.
C31_NoKillAfterReap ==
  proc.state # "none" => "reaped" \notin proc.signalled

-----------------------------------------------------------------------------
(* Claim about what the retry loop returns *)

\* the modes that call find_connection, once it has been called
Outbound == net.pc # "none" /\ net.mode \in {"client", "srv", "inherit"}

\* the caller has read anet.state
ResultRead == Outbound /\ net.pc \in {"exit", "accept"} /\ net.anet # "uninit"

\* C32: the connection find_connection returns has a session state set if
\* and only if an attempt of that call succeeded; when the loop made no
\* attempt (retry count 0, producer dead on entry) the caller reads a
\* well-defined "no session", and no session that was never established is
\* released or handed to dispatch.
C32_SessionIffConnected ==
  Outbound =>
    /\ net.anet \in {"session", "garbage", "freed"} => net.connected
    /\ (net.pc = "found" /\ net.connected) => net.anet = "session"
    /\ ResultRead /\ net.attempts = 0 => net.anet = "null"
    /\ \A d \in net.dispatched :
         d.session \in {"session", "garbage", "freed"} => net.connected

====
